---------------------------- MODULE Spec2Model ----------------------------
(***************************************************************************)
(* Kiangombe Patient Center backend (FastAPI + SQLAlchemy): a model of the *)
(* request handlers of src/backend/main.py, src/backend/auth_router.py and *)
(* src/backend/auth.py over the tables of src/backend/models.py.           *)
(*                                                                         *)
(* One action is one HTTP request, handled to completion; the handlers     *)
(* that look a row up and then insert or delete (registration, staff       *)
(* roles) take two actions, lookup and commit, so that requests served at  *)
(* the same time interleave.  `last` records                               *)
(* what the handler answered: the status of the HTTPException it raised,   *)
(* 500 for any other exception that leaves the handler, 200 when the       *)
(* handler returns (the framework's serialisation of the returned value    *)
(* happens after the handler and is not part of the model).                *)
(*                                                                         *)
(* The database enforces its schema (NOT NULL, UNIQUE, ENUM, FOREIGN KEY)  *)
(* and otherwise does not fail.  It outlives the server processes: Init is *)
(* a deployed database holding a few users and two appointments.           *)
(***************************************************************************)
EXTENDS Integers, Sequences, FiniteSets, TLC

VARIABLES
    clock,                \* datetime.utcnow(), in seconds
    users,                \* table users
    tokens,               \* the bearer tokens handed out so far
    appointments,         \* table appointments
    prescriptions,        \* table prescriptions
    payments,             \* table payments
    video_consultations,  \* table video_consultations
    chat_messages,        \* tables chat_rooms / chat_messages
    medical_info,         \* table medical_info
    activity_logs,        \* table activity_logs, in insertion order
    verification_codes,   \* auth_router.verification_codes, one dict per process
    medications,          \* table medications
    staff_roles,          \* table staff_roles
    profiles,             \* tables doctors, nurses, receptionists, lab_technicians, pharmacists
    auth_tokens,          \* the tokens src/backend/auth.py has signed and mailed
    pending,              \* requests whose handler has read the database and not yet written
    last                  \* the last request and the handler's answer

vars == << clock, users, tokens, appointments, prescriptions, payments,
           video_consultations, chat_messages, medical_info, activity_logs,
           verification_codes, medications, staff_roles, profiles, auth_tokens,
           pending, last >>

\* what the handlers of appointments, prescriptions, profiles and reset codes
\* neither read nor write
dbOther == << payments, video_consultations, chat_messages, medications,
             staff_roles, profiles, auth_tokens, pending >>

-----------------------------------------------------------------------------
(* Bounds of the model *)

MaxTicks == 3
MaxAppointments == 3
MaxTokens == 2
MaxLogs == 4

(* Program constants *)

\* timedelta(hours=1) of login, and the one hour a reset code lives
SecondsPerHour == 3600

\* the clock advances in steps of half an hour
TickSeconds == SecondsPerHour \div 2

\* None, and a field the request leaves out (exclude_unset); NullInt and
\* UnsetInt stand for them where the field holds a number
Null == "null"
Unset == "unset"
NullInt == 0 - 1
UnsetInt == 0 - 2

\* models.Role
SUPER_ADMIN == "super_admin"
CLINICIAN_ADMIN == "clinician_admin"
DOCTOR == "doctor"
NURSE == "nurse"
RECEPTIONIST == "receptionist"
LAB_TECHNICIAN == "lab_technician"
PHARMACIST == "pharmacist"
PATIENT == "patient"
Role == { SUPER_ADMIN, CLINICIAN_ADMIN, DOCTOR, NURSE, RECEPTIONIST,
          LAB_TECHNICIAN, PHARMACIST, PATIENT }

\* models.AppointmentStatus
SCHEDULED == "scheduled"
IN_PROGRESS == "in_progress"
COMPLETED == "completed"
CANCELLED == "cancelled"
AppointmentStatus == { SCHEDULED, IN_PROGRESS, COMPLETED, CANCELLED }

\* models.PrescriptionStatus
PENDING == "pending"
APPROVED == "approved"
FULFILLED == "fulfilled"
PrescriptionStatus == { PENDING, APPROVED, FULFILLED }

-----------------------------------------------------------------------------
(* Passwords: bcrypt_context.hash / bcrypt_context.verify.  A hash is not   *)
(* the password: it is a value that verifies exactly that password.         *)

bcrypt_hash(password) == << "bcrypt", password >>

bcrypt_verify(password, password_hash) == password_hash = << "bcrypt", password >>

-----------------------------------------------------------------------------
(* The deployed database *)

User(id, email, role) ==
    [ id |-> id, full_name |-> "name", email |-> email, phone |-> Null,
      password_hash |-> bcrypt_hash("pw1"), role |-> role,
      is_verified |-> FALSE, staff_role_id |-> Null ]

SeedUsers ==
    { User(1, "sa@x", SUPER_ADMIN),
      User(2, "ca2@x", CLINICIAN_ADMIN),
      User(3, "ca3@x", CLINICIAN_ADMIN),
      User(4, "p4@x", PATIENT),
      User(5, "p5@x", PATIENT),
      User(6, "dr6@x", DOCTOR) }

NoUser == [ id |-> 0, full_name |-> Null, email |-> Null, phone |-> Null,
            password_hash |-> << >>, role |-> Null,
            is_verified |-> FALSE, staff_role_id |-> Null ]

UserExists(id) == \E u \in users : u.id = id

UserById(id) == IF UserExists(id) THEN CHOOSE u \in users : u.id = id ELSE NoUser

UserByEmail(email) ==
    IF \E u \in users : u.email = email
    THEN CHOOSE u \in users : u.email = email
    ELSE NoUser

-----------------------------------------------------------------------------
(* Bearer tokens.  The claims sub, id, role and exp are what                *)
(* create_access_token encodes; sig says whether the signature verifies    *)
(* under SECRET_KEY; iat is the issue time, kept for the statements only   *)
(* (the token does not carry it).                                           *)

create_access_token(full_name, user_id, role, expires_delta) ==
    [ sub |-> full_name, id |-> user_id, role |-> role,
      exp |-> clock + expires_delta, iat |-> clock, sig |-> TRUE ]

ForgedToken == [ sub |-> "name", id |-> 1, role |-> SUPER_ADMIN,
                 exp |-> 1000000, iat |-> 0, sig |-> FALSE ]

\* jwt.decode: the signature first, then exp against the current second;
\* the token is refused when exp < now, so the second `exp` itself still passes
jwt_decode(token) ==
    IF ~token.sig THEN "JWTError"
    ELSE IF token.exp < clock THEN "ExpiredSignatureError"
    ELSE "ok"

get_current_active_user(token) ==
    LET decoded == jwt_decode(token) IN
    IF decoded = "ExpiredSignatureError"
    THEN [ status |-> 401, detail |-> "Token has expired", user |-> NoUser ]
    ELSE IF decoded = "JWTError"
    THEN [ status |-> 401, detail |-> "Invalid token", user |-> NoUser ]
    ELSE IF ~UserExists(token.id)
    THEN [ status |-> 401, detail |-> "User not found", user |-> NoUser ]
    ELSE [ status |-> 200, detail |-> "", user |-> UserById(token.id) ]

\* a require_admin that checks the token and not the role
require_admin_NoRoleCheck(allowed_roles, token) == get_current_active_user(token)

\* require_admin(allowed_roles): the check_admin dependency
require_admin(allowed_roles, token) ==
    LET auth == get_current_active_user(token) IN
    IF auth.status # 200 THEN auth
    ELSE IF allowed_roles # {} /\ auth.user.role \notin allowed_roles
    THEN [ status |-> 403, detail |-> "Admin access required", user |-> auth.user ]
    ELSE auth

Bearer == tokens \cup { ForgedToken }

\* what a handler answered; caller is the authenticated user's id, 0 when none
\* and request is what the request carried besides the target's id
Respond(op, auth, target, request, status, detail, result) ==
    [ op |-> op, caller |-> auth.user.id, target |-> target, request |-> request,
      status |-> status, detail |-> detail, result |-> result ]

\* before any request
NoRequest == [ op |-> "none", caller |-> 0, target |-> 0, request |-> Null, status |-> 0,
               detail |-> "", result |-> {} ]

\* what a handler without a current_user dependency answered
Reply(op, target, request, status, detail, result) ==
    [ op |-> op, caller |-> 0, target |-> target, request |-> request,
      status |-> status, detail |-> detail, result |-> result ]

-----------------------------------------------------------------------------
(* Appointments *)

\* ids a request may name: users 2, 3, 4, 5 exist, user 9 does not
PayloadPatientIds == { 4, 5, 2, 9 }
PayloadClinicianIds == { 3, 9 }

AppointmentIds == 1 .. (MaxAppointments + 1)

AppointmentExists(id) == \E a \in appointments : a.id = id

AppointmentById(id) == CHOOSE a \in appointments : a.id = id

\* Appointment(...) with the column defaults of models.Appointment
Appointment(id, patient_id, clinician_id, scheduled_at) ==
    [ id |-> id, patient_id |-> patient_id, clinician_id |-> clinician_id,
      scheduled_at |-> scheduled_at, status |-> SCHEDULED,
      cancellation_reason |-> Null, created_at |-> clock, updated_at |-> clock ]

\* the UPDATE a commit flushes: nothing when no column changed, else the
\* changed columns and updated_at = now() (onupdate)
FlushAppointment(old, new) ==
    IF new = old THEN appointments
    ELSE (appointments \ { old }) \cup { [ new EXCEPT !.updated_at = clock ] }

\* a create_appointment_permission that lets a patient book for anyone
create_appointment_permission_Any(current_user, payload) == 200

\* the permission check of create_appointment: the status it raises, 200 when none
create_appointment_permission(current_user, payload) ==
    IF current_user.role = PATIENT /\ payload.patient_id # current_user.id
    THEN 403 ELSE 200

create_appointment(token, payload) ==
    LET auth == get_current_active_user(token)
        current_user == auth.user
        id == Cardinality(appointments) + 1
    IN
    /\ Cardinality(appointments) < MaxAppointments
    /\ IF auth.status # 200
       THEN /\ last' = Respond("create_appointment", auth, 0, payload, auth.status, auth.detail, {})
            /\ UNCHANGED appointments
       ELSE IF create_appointment_permission(current_user, payload) = 403
       THEN /\ last' = Respond("create_appointment", auth, 0, payload, 403,
                               "Patients can only book appointments for themselves", {})
            /\ UNCHANGED appointments
       ELSE IF ~\E u \in users : u.id = payload.patient_id /\ u.role = PATIENT
       THEN /\ last' = Respond("create_appointment", auth, 0, payload, 400,
                               "Patient does not exist.", {})
            /\ UNCHANGED appointments
       ELSE IF ~UserExists(payload.clinician_id)
       THEN /\ last' = Respond("create_appointment", auth, 0, payload, 400,
                               "Clinician does not exist.", {})
            /\ UNCHANGED appointments
       ELSE /\ appointments' = appointments \cup
                    { Appointment(id, payload.patient_id, payload.clinician_id,
                                  payload.scheduled_at) }
            /\ last' = Respond("create_appointment", auth, id, payload, 200, "", { id })
    /\ UNCHANGED << clock, users, tokens, prescriptions, dbOther, medical_info,
                    activity_logs, verification_codes >>

\* pgfunc.get_appointments_for_user: the ids of the rows returned
get_appointments_for_user(current_user, status_filter) ==
    { a.id : a \in
        { a \in appointments :
            /\ UserExists(a.clinician_id) /\ UserExists(a.patient_id)
            /\ (current_user.role = PATIENT => a.patient_id = current_user.id)
            /\ (status_filter # Null => a.status = status_filter) } }

list_appointments(token, status_filter) ==
    LET auth == get_current_active_user(token) IN
    /\ IF auth.status # 200
       THEN last' = Respond("list_appointments", auth, 0, status_filter, auth.status, auth.detail, {})
       ELSE last' = Respond("list_appointments", auth, 0, status_filter, 200, "",
                            get_appointments_for_user(auth.user, status_filter))
    /\ UNCHANGED << clock, users, tokens, appointments, prescriptions, dbOther,
                    medical_info, activity_logs, verification_codes >>

\* the permission check of get_appointment: the status it raises, 200 when none
get_appointment_permission(current_user, appt) ==
    IF current_user.role = PATIENT /\ appt.patient_id # current_user.id THEN 403
    ELSE IF current_user.role = CLINICIAN_ADMIN /\ appt.clinician_id # current_user.id
    THEN 403
    ELSE 200

get_appointment(token, appointment_id) ==
    LET auth == get_current_active_user(token) IN
    /\ IF auth.status # 200
       THEN last' = Respond("get_appointment", auth, appointment_id, Null,
                            auth.status, auth.detail, {})
       ELSE IF ~AppointmentExists(appointment_id)
       THEN last' = Respond("get_appointment", auth, appointment_id, Null, 404,
                            "Appointment not found", {})
       ELSE IF get_appointment_permission(auth.user, AppointmentById(appointment_id)) = 403
       THEN last' = Respond("get_appointment", auth, appointment_id, Null, 403,
                            "Not authorized to view this appointment", {})
       ELSE last' = Respond("get_appointment", auth, appointment_id, Null, 200, "",
                            { appointment_id })
    /\ UNCHANGED << clock, users, tokens, appointments, prescriptions, dbOther,
                    medical_info, activity_logs, verification_codes >>

\* a request model that keeps `status` from the body, as
\* pydantic_models.AppointmentUpdateRequest does
AppointmentRescheduleRequest_WithStatus(body) == body

\* AppointmentRescheduleRequest(**body): the model's one field is
\* scheduled_at, and a key of the body that is no field is ignored
AppointmentRescheduleRequest(body) ==
    [ scheduled_at |-> body.scheduled_at ]

\* the row after `for field, value in update_data.items(): setattr(...)`,
\* update_data being payload.model_dump(exclude_unset=True)
update_appointment_write(appt, payload) ==
    [ appt EXCEPT
        !.scheduled_at = IF payload.scheduled_at = UnsetInt THEN @
                         ELSE payload.scheduled_at,
        !.status = IF "status" \in DOMAIN payload /\ payload.status # Unset
                   THEN payload.status ELSE @ ]

\* payload: AppointmentRescheduleRequest, whose one field is scheduled_at
update_appointment(token, appointment_id, payload) ==
    LET auth == require_admin({ SUPER_ADMIN, CLINICIAN_ADMIN }, token)
        appt == AppointmentById(appointment_id)
    IN
    /\ IF auth.status # 200
       THEN /\ last' = Respond("update_appointment", auth, appointment_id, payload,
                               auth.status, auth.detail, {})
            /\ UNCHANGED appointments
       ELSE IF ~AppointmentExists(appointment_id)
       THEN /\ last' = Respond("update_appointment", auth, appointment_id, payload, 404,
                               "Appointment not found", {})
            /\ UNCHANGED appointments
       ELSE IF payload.scheduled_at = NullInt
       THEN \* scheduled_at is NOT NULL: IntegrityError, rollback
            /\ last' = Respond("update_appointment", auth, appointment_id, payload, 500,
                               "Failed to update appointment.", {})
            /\ UNCHANGED appointments
       ELSE /\ appointments' = FlushAppointment(appt,
                    update_appointment_write(appt, payload))
            /\ last' = Respond("update_appointment", auth, appointment_id, payload, 200, "",
                               { appointment_id })
    /\ UNCHANGED << clock, users, tokens, prescriptions, dbOther, medical_info,
                    activity_logs, verification_codes >>

\* the attributes of an Appointment instance: the columns and relationships
\* of models.Appointment
AppointmentAttributes ==
    { "id", "patient_id", "clinician_id", "visit_type", "specialization",
      "scheduled_at", "status", "triage_notes", "cost", "cancellation_reason",
      "created_at", "updated_at", "patient", "clinician", "prescription",
      "payment" }

\* the permission check of reschedule_appointment: 403, 200 when it passes,
\* 500 when reading appt.doctor_id raises AttributeError
reschedule_appointment_permission(current_user, appt) ==
    IF current_user.role = PATIENT /\ appt.patient_id # current_user.id THEN 403
    ELSE IF current_user.role = DOCTOR
    THEN IF "doctor_id" \notin AppointmentAttributes THEN 500
         ELSE IF appt.doctor_id # current_user.id THEN 403 ELSE 200
    ELSE 200

\* what reschedule_appointment writes to the row: date, time and notes are
\* no columns, so of its assignments only updated_at reaches the table
reschedule_appointment_write(appt, payload) ==
    [ appt EXCEPT !.updated_at = clock ]

\* payload: AppointmentRescheduleRequest; reading payload.date raises
\* AttributeError before anything is assigned
reschedule_appointment(token, appointment_id, payload) ==
    LET auth == get_current_active_user(token)
        appt == AppointmentById(appointment_id)
        permission == reschedule_appointment_permission(auth.user, appt)
    IN
    /\ IF auth.status # 200
       THEN /\ last' = Respond("reschedule_appointment", auth, appointment_id, payload,
                               auth.status, auth.detail, {})
            /\ UNCHANGED appointments
       ELSE IF ~AppointmentExists(appointment_id)
       THEN /\ last' = Respond("reschedule_appointment", auth, appointment_id, payload, 404,
                               "Appointment not found", {})
            /\ UNCHANGED appointments
       ELSE IF permission = 403
       THEN /\ last' = Respond("reschedule_appointment", auth, appointment_id, payload, 403,
                               "Not authorized to reschedule this appointment", {})
            /\ UNCHANGED appointments
       ELSE IF permission = 500 \/ { "date", "time", "notes" } \ DOMAIN payload # {}
       THEN /\ last' = Respond("reschedule_appointment", auth, appointment_id, payload, 500,
                               "Internal Server Error", {})
            /\ UNCHANGED appointments
       ELSE /\ appointments' = FlushAppointment(appt,
                    reschedule_appointment_write(appt, payload))
            /\ last' = Respond("reschedule_appointment", auth, appointment_id, payload, 200, "",
                               { appointment_id })
    /\ UNCHANGED << clock, users, tokens, prescriptions, dbOther, medical_info,
                    activity_logs, verification_codes >>

\* a cancel_appointment_permission without the patient's ownership check
cancel_appointment_permission_NoPatientCheck(current_user, appt) ==
    IF current_user.role = CLINICIAN_ADMIN /\ appt.clinician_id # current_user.id
    THEN 403
    ELSE 200

\* the permission check of cancel_appointment
cancel_appointment_permission(current_user, appt) ==
    IF current_user.role = PATIENT /\ appt.patient_id # current_user.id THEN 403
    ELSE IF current_user.role = CLINICIAN_ADMIN /\ appt.clinician_id # current_user.id
    THEN 403
    ELSE 200

\* a cancel_appointment that also clears the appointment's slot
cancel_appointment_write_ClearsSlot(appt, cancellation_reason) ==
    [ appt EXCEPT !.status = CANCELLED, !.cancellation_reason = cancellation_reason,
                  !.scheduled_at = NullInt ]

\* what cancel_appointment writes to the row
cancel_appointment_write(appt, cancellation_reason) ==
    [ appt EXCEPT !.status = CANCELLED, !.cancellation_reason = cancellation_reason ]

cancel_appointment(token, appointment_id, cancellation_reason) ==
    LET auth == get_current_active_user(token)
        appt == AppointmentById(appointment_id)
    IN
    /\ IF auth.status # 200
       THEN /\ last' = Respond("cancel_appointment", auth, appointment_id, cancellation_reason,
                               auth.status, auth.detail, {})
            /\ UNCHANGED appointments
       ELSE IF ~AppointmentExists(appointment_id)
       THEN /\ last' = Respond("cancel_appointment", auth, appointment_id, cancellation_reason, 404,
                               "Appointment not found", {})
            /\ UNCHANGED appointments
       ELSE IF cancel_appointment_permission(auth.user, appt) = 403
       THEN /\ last' = Respond("cancel_appointment", auth, appointment_id, cancellation_reason, 403,
                               "Not authorized to cancel this appointment", {})
            /\ UNCHANGED appointments
       ELSE /\ appointments' = FlushAppointment(appt,
                    cancel_appointment_write(appt, cancellation_reason))
            /\ last' = Respond("cancel_appointment", auth, appointment_id, cancellation_reason, 200, "",
                               { appointment_id })
    /\ UNCHANGED << clock, users, tokens, prescriptions, dbOther, medical_info,
                    activity_logs, verification_codes >>

-----------------------------------------------------------------------------
(* Prescriptions *)

PrescriptionIds == 1 .. 3

\* the columns and relationships of models.Prescription: what its
\* constructor takes as keyword arguments
PrescriptionAttributes ==
    { "id", "appointment_id", "issued_by_doctor_id", "pharmacy_name",
      "medications_json", "status", "qr_code_path", "issued_date", "expiry_date",
      "verified", "created_at", "updated_at", "appointment" }

\* the keyword arguments create_prescription passes to Prescription(...)
create_prescription_kwargs ==
    { "appointment_id", "issued_by_doctor_id", "patient_id", "pharmacy_name",
      "medications_json", "status", "issued_date" }

PrescriptionExists(id) == \E p \in prescriptions : p.id = id

PrescriptionById(id) == CHOOSE p \in prescriptions : p.id = id

NextPrescriptionId ==
    IF prescriptions = {} THEN 1
    ELSE 1 + (CHOOSE m \in { p.id : p \in prescriptions } :
                 \A p \in prescriptions : p.id <= m)

\* INSERT INTO prescriptions under the table's constraints:
\* appointment_id is NOT NULL, a foreign key and UNIQUE
InsertPrescriptionAllowed(row) ==
    /\ row.appointment_id # NullInt
    /\ AppointmentExists(row.appointment_id)
    /\ ~\E p \in prescriptions : p.appointment_id = row.appointment_id

\* the roles create_prescription and delete_prescription let through
PrescriberRoles == { DOCTOR, NURSE, SUPER_ADMIN, CLINICIAN_ADMIN }

\* a create_prescription over a table whose appointment_id is not UNIQUE
\* and whose model has the patient_id column
create_prescription_NoUnique(token, payload) ==
    LET auth == get_current_active_user(token)
        row == [ id |-> NextPrescriptionId,
                 appointment_id |-> payload.appointment_id,
                 issued_by_doctor_id |-> payload.doctor_id,
                 pharmacy_name |-> IF payload.pharmacy_name = Null
                                   THEN "Main Pharmacy" ELSE payload.pharmacy_name,
                 status |-> PENDING ]
    IN
    /\ IF auth.status = 200 /\ auth.user.role \in PrescriberRoles
          /\ AppointmentExists(payload.appointment_id)
       THEN /\ prescriptions' = prescriptions \cup { row }
            /\ last' = Respond("create_prescription", auth, payload.appointment_id,
                               payload, 200, "", { row.id })
       ELSE /\ last' = Respond("create_prescription", auth, payload.appointment_id,
                               payload, 500, "", {})
            /\ UNCHANGED prescriptions
    /\ UNCHANGED << clock, users, tokens, appointments, dbOther, medical_info,
                    activity_logs, verification_codes >>

\* payload: PrescriptionCreateRequest (appointment_id may be None)
create_prescription(token, payload) ==
    LET auth == get_current_active_user(token)
        row == [ id |-> NextPrescriptionId,
                 appointment_id |-> payload.appointment_id,
                 issued_by_doctor_id |-> payload.doctor_id,
                 pharmacy_name |-> IF payload.pharmacy_name = Null
                                   THEN "Main Pharmacy" ELSE payload.pharmacy_name,
                 status |-> PENDING ]
    IN
    /\ IF auth.status # 200
       THEN /\ last' = Respond("create_prescription", auth, payload.appointment_id, payload,
                               auth.status, auth.detail, {})
            /\ UNCHANGED prescriptions
       ELSE IF auth.user.role \notin PrescriberRoles
       THEN /\ last' = Respond("create_prescription", auth, payload.appointment_id, payload,
                               403, "Not authorized to create prescriptions", {})
            /\ UNCHANGED prescriptions
       ELSE IF ~(create_prescription_kwargs \subseteq PrescriptionAttributes)
       THEN \* TypeError from the constructor, caught by `except Exception`
            /\ last' = Respond("create_prescription", auth, payload.appointment_id, payload,
                               500, "Error: invalid keyword argument", {})
            /\ UNCHANGED prescriptions
       ELSE IF ~InsertPrescriptionAllowed(row)
       THEN \* IntegrityError, caught by `except SQLAlchemyError`
            /\ last' = Respond("create_prescription", auth, payload.appointment_id, payload,
                               500, "Database error", {})
            /\ UNCHANGED prescriptions
       ELSE /\ prescriptions' = prescriptions \cup { row }
            /\ last' = Respond("create_prescription", auth, payload.appointment_id, payload,
                               200, "", { row.id })
    /\ UNCHANGED << clock, users, tokens, appointments, dbOther, medical_info,
                    activity_logs, verification_codes >>

\* Enum(PrescriptionStatus) on the way to the database: a string that is a
\* member's name is stored as that member
PrescriptionStatusFromName(name) ==
    CASE name = "PENDING" -> PENDING
      [] name = "APPROVED" -> APPROVED
      [] name = "FULFILLED" -> FULFILLED

PrescriptionStatusNames == { "PENDING", "APPROVED", "FULFILLED" }

\* the row after `for field, value in update_data.items(): setattr(...)`;
\* status is a nullable column
update_prescription_write(prescription, payload) ==
    [ prescription EXCEPT
        !.pharmacy_name = IF payload.pharmacy_name = Unset THEN @
                          ELSE payload.pharmacy_name,
        !.status = IF payload.status = Unset THEN @
                   ELSE IF payload.status = Null THEN Null
                   ELSE PrescriptionStatusFromName(payload.status) ]

\* payload: PrescriptionUpdateRequest (pharmacy_name and status; the two
\* other fields, medications_json and qr_code_path, are stored the same way)
update_prescription(token, prescription_id, payload) ==
    LET auth == require_admin({ SUPER_ADMIN, CLINICIAN_ADMIN }, token)
        prescription == PrescriptionById(prescription_id)
    IN
    /\ IF auth.status # 200
       THEN /\ last' = Respond("update_prescription", auth, prescription_id, payload,
                               auth.status, auth.detail, {})
            /\ UNCHANGED prescriptions
       ELSE IF ~PrescriptionExists(prescription_id)
       THEN /\ last' = Respond("update_prescription", auth, prescription_id, payload, 404,
                               "Prescription not found", {})
            /\ UNCHANGED prescriptions
       ELSE /\ prescriptions' = (prescriptions \ { prescription }) \cup
                    { update_prescription_write(prescription, payload) }
            /\ last' = Respond("update_prescription", auth, prescription_id, payload, 200, "",
                               { prescription_id })
    /\ UNCHANGED << clock, users, tokens, appointments, dbOther, medical_info,
                    activity_logs, verification_codes >>

delete_prescription(token, prescription_id) ==
    LET auth == get_current_active_user(token) IN
    /\ IF auth.status # 200
       THEN /\ last' = Respond("delete_prescription", auth, prescription_id, Null,
                               auth.status, auth.detail, {})
            /\ UNCHANGED prescriptions
       ELSE IF auth.user.role \notin PrescriberRoles
       THEN /\ last' = Respond("delete_prescription", auth, prescription_id, Null, 403,
                               "Not authorized to delete prescriptions", {})
            /\ UNCHANGED prescriptions
       ELSE IF ~PrescriptionExists(prescription_id)
       THEN /\ last' = Respond("delete_prescription", auth, prescription_id, Null, 404,
                               "Prescription not found", {})
            /\ UNCHANGED prescriptions
       ELSE /\ prescriptions' = prescriptions \ { PrescriptionById(prescription_id) }
            /\ last' = Respond("delete_prescription", auth, prescription_id, Null, 200, "",
                               { prescription_id })
    /\ UNCHANGED << clock, users, tokens, appointments, dbOther, medical_info,
                    activity_logs, verification_codes >>

-----------------------------------------------------------------------------
(* Activity log, login and the guarded profile endpoints *)

\* activity_logger.create_activity_log: one row added and committed
create_activity_log(user_id, action) ==
    Append(activity_logs, [ user_id |-> user_id, action |-> action, timestamp |-> clock ])

\* token_expires = timedelta(hours=1)
token_expires == SecondsPerHour

\* POST /auth/login; form_data: LoginUserRequest
login(form_data) ==
    LET user == UserByEmail(form_data.email)
        token == create_access_token(user.full_name, user.id, user.role, token_expires)
    IN
    /\ Cardinality(tokens) < MaxTokens
    /\ Len(activity_logs) < MaxLogs
    /\ IF user = NoUser
       THEN /\ last' = Reply("login", 0, form_data, 404, "User does not exist", {})
            /\ UNCHANGED << tokens, activity_logs >>
       ELSE IF ~bcrypt_verify(form_data.password, user.password_hash)
       THEN /\ last' = Reply("login", user.id, form_data, 401, "Invalid password", {})
            /\ UNCHANGED << tokens, activity_logs >>
       ELSE /\ tokens' = tokens \cup { token }
            /\ activity_logs' = create_activity_log(user.id, "Login")
            /\ last' = Reply("login", user.id, form_data, 200, "",
                             [ access_token |-> token, token_type |-> "bearer",
                               expires_in |-> token_expires ])
    /\ UNCHANGED << clock, users, appointments, prescriptions, dbOther, medical_info,
                    verification_codes >>

MedicalInfoExists(patient_id) == \E m \in medical_info : m.patient_id = patient_id

MedicalInfoOf(patient_id) == CHOOSE m \in medical_info : m.patient_id = patient_id

\* GET /users/me
get_current_user_profile(token) ==
    LET auth == get_current_active_user(token) IN
    /\ IF auth.status # 200
       THEN last' = Respond("get_current_user_profile", auth, 0, token,
                            auth.status, auth.detail, {})
       ELSE last' = Respond("get_current_user_profile", auth, auth.user.id, token,
                            200, "", { auth.user.id })
    /\ UNCHANGED << clock, users, tokens, appointments, prescriptions, dbOther,
                    medical_info, activity_logs, verification_codes >>

\* the fields of update_data that update_current_user_profile copies
allowed_fields == { "full_name", "phone" }

\* update_data with the value of `field`, or the stored value when it has none
UpdatedField(update_data, field, stored) ==
    IF field \in DOMAIN update_data /\ field \in allowed_fields
    THEN update_data[field] ELSE stored

\* UserProfileResponse(allergies: Optional[str]) accepts None and a str;
\* medical_info.allergies is a JSON column: None or a list
UserProfileResponse_accepts(allergies) == allergies = Null

\* PUT /users/me; update_data: dict
update_current_user_profile(token, update_data) ==
    LET auth == get_current_active_user(token)
        current_user == auth.user
        updated == [ current_user EXCEPT
                       !.full_name = UpdatedField(update_data, "full_name", @),
                       !.phone = UpdatedField(update_data, "phone", @) ]
    IN
    /\ Len(activity_logs) < MaxLogs
    /\ IF auth.status # 200
       THEN /\ last' = Respond("update_current_user_profile", auth, 0, update_data,
                               auth.status, auth.detail, {})
            /\ UNCHANGED << users, activity_logs >>
       ELSE IF updated.full_name = Null
       THEN \* users.full_name is NOT NULL: IntegrityError, rollback
            /\ last' = Respond("update_current_user_profile", auth, current_user.id,
                               update_data, 500, "Failed to update user profile.", {})
            /\ UNCHANGED << users, activity_logs >>
       ELSE /\ users' = (users \ { current_user }) \cup { updated }
            /\ activity_logs' = create_activity_log(current_user.id, "Profile Update")
            /\ IF /\ MedicalInfoExists(current_user.id)
                  /\ ~UserProfileResponse_accepts(MedicalInfoOf(current_user.id).allergies)
               THEN \* pydantic ValidationError leaves the handler
                    last' = Respond("update_current_user_profile", auth, current_user.id,
                                    update_data, 500, "Internal Server Error", {})
               ELSE last' = Respond("update_current_user_profile", auth, current_user.id,
                                    update_data, 200, "", { current_user.id })
    /\ UNCHANGED << clock, tokens, appointments, prescriptions, dbOther, medical_info,
                    verification_codes >>

\* PUT /api/patient/medical-info; medical_update: MedicalInfoRequest
update_medical_info(token, medical_update) ==
    LET auth == get_current_active_user(token)
        current_user == auth.user
        stored == IF MedicalInfoExists(current_user.id)
                  THEN MedicalInfoOf(current_user.id)
                  ELSE [ patient_id |-> current_user.id, allergies |-> Null ]
        updated == [ stored EXCEPT !.allergies = IF medical_update.allergies = Unset
                                                 THEN @ ELSE medical_update.allergies ]
    IN
    /\ Len(activity_logs) < MaxLogs
    /\ IF auth.status # 200
       THEN /\ last' = Respond("update_medical_info", auth, 0, medical_update,
                               auth.status, auth.detail, {})
            /\ UNCHANGED << medical_info, activity_logs >>
       ELSE IF current_user.role # PATIENT
       THEN /\ last' = Respond("update_medical_info", auth, current_user.id, medical_update,
                               403, "Only patients can update medical information", {})
            /\ UNCHANGED << medical_info, activity_logs >>
       ELSE /\ medical_info' = (medical_info \ { stored }) \cup { updated }
            /\ activity_logs' = create_activity_log(current_user.id, "Medical Info Update")
            /\ last' = Respond("update_medical_info", auth, current_user.id, medical_update,
                               200, "", { current_user.id })
    /\ UNCHANGED << clock, users, tokens, appointments, prescriptions, dbOther,
                    verification_codes >>

-----------------------------------------------------------------------------
(* Password reset.  verification_codes is a module-level dict: each server  *)
(* process p has its own, verification_codes[p], empty when the process     *)
(* starts.  A dict is written as the set of its entries, one per email.     *)

Procs == { 1, 2 }

\* the dict a request handled by any process would see, were the store shared
verification_codes_of_Shared(p) == UNION { verification_codes[q] : q \in Procs }

\* the dict `verification_codes` of the process that handles the request
verification_codes_of(p) == verification_codes[p]

HasCode(p, email) == \E e \in verification_codes_of(p) : e.email = email

StoredCode(p, email) == CHOOSE e \in verification_codes_of(p) : e.email = email

\* a handler that forgets to delete the code
DelCode_Keep(p, email) == verification_codes

\* del verification_codes[email]
DelCode(p, email) ==
    [ verification_codes EXCEPT ![p] = { e \in @ : e.email # email } ]

\* generate_verification_code(): random digits
VerificationCodes == { "111111", "222222" }

\* a server process (re)starts: the module is imported, the dict is empty
Restart(p) ==
    /\ verification_codes' = [ verification_codes EXCEPT ![p] = {} ]
    /\ last' = Reply("Restart", p, Null, 0, "", {})
    /\ UNCHANGED << clock, users, tokens, appointments, prescriptions, dbOther,
                    medical_info, activity_logs >>

\* POST /auth/forgot-password, handled by process p
forgot_password(p, email) ==
    LET user == UserByEmail(email) IN
    /\ IF user = NoUser
       THEN /\ last' = Reply("forgot_password", p, [ email |-> email, code |-> Null ],
                             404, "User does not exist", {})
            /\ UNCHANGED verification_codes
       ELSE \E verification_code \in VerificationCodes :
            /\ verification_codes' =
                 [ verification_codes EXCEPT ![p] =
                     { e \in @ : e.email # email } \cup
                     { [ email |-> email, code |-> verification_code,
                         timestamp |-> clock, user_id |-> user.id ] } ]
            /\ last' = Reply("forgot_password", p, [ email |-> email, code |-> Null ],
                             200, "", {})
    /\ UNCHANGED << clock, users, tokens, appointments, prescriptions, dbOther,
                    medical_info, activity_logs >>

\* POST /auth/verify-reset-code, handled by process p
verify_reset_code(p, verify_request) ==
    LET email == verify_request.email
        code == verify_request.code
    IN
    /\ IF ~HasCode(p, email)
       THEN /\ last' = Reply("verify_reset_code", p, verify_request, 400,
                             "No verification code found for this email", {})
            /\ UNCHANGED verification_codes
       ELSE IF StoredCode(p, email).code # code
       THEN /\ last' = Reply("verify_reset_code", p, verify_request, 400,
                             "Invalid verification code", {})
            /\ UNCHANGED verification_codes
       ELSE IF clock - StoredCode(p, email).timestamp > SecondsPerHour
       THEN /\ verification_codes' = DelCode(p, email)
            /\ last' = Reply("verify_reset_code", p, verify_request, 400,
                             "Verification code has expired", {})
       ELSE /\ last' = Reply("verify_reset_code", p, verify_request, 200, "",
                             { StoredCode(p, email).user_id })
            /\ UNCHANGED verification_codes
    /\ UNCHANGED << clock, users, tokens, appointments, prescriptions, dbOther,
                    medical_info, activity_logs >>

\* POST /auth/reset-password-with-code, handled by process p
reset_password_with_code(p, reset_request) ==
    LET email == reset_request.email
        code == reset_request.code
        user == UserById(StoredCode(p, email).user_id)
    IN
    /\ Len(activity_logs) < MaxLogs
    /\ IF ~HasCode(p, email)
       THEN /\ last' = Reply("reset_password_with_code", p, reset_request, 400,
                             "No verification code found for this email", {})
            /\ UNCHANGED << users, activity_logs, verification_codes >>
       ELSE IF StoredCode(p, email).code # code
       THEN /\ last' = Reply("reset_password_with_code", p, reset_request, 400,
                             "Invalid verification code", {})
            /\ UNCHANGED << users, activity_logs, verification_codes >>
       ELSE IF clock - StoredCode(p, email).timestamp > SecondsPerHour
       THEN /\ verification_codes' = DelCode(p, email)
            /\ last' = Reply("reset_password_with_code", p, reset_request, 400,
                             "Verification code has expired", {})
            /\ UNCHANGED << users, activity_logs >>
       ELSE IF user = NoUser
       THEN /\ last' = Reply("reset_password_with_code", p, reset_request, 404,
                             "User not found", {})
            /\ UNCHANGED << users, activity_logs, verification_codes >>
       ELSE /\ users' = (users \ { user }) \cup
                        { [ user EXCEPT !.password_hash =
                                          bcrypt_hash(reset_request.new_password) ] }
            /\ verification_codes' = DelCode(p, email)
            /\ activity_logs' = create_activity_log(user.id, "Password Reset")
            /\ last' = Reply("reset_password_with_code", p, reset_request, 200, "",
                             { user.id })
    /\ UNCHANGED << clock, tokens, appointments, prescriptions, dbOther, medical_info >>

\* POST /auth/reset-password/{token}
reset_password(token, new_password) ==
    LET decoded == jwt_decode(token)
        user == UserById(token.id)
    IN
    /\ Len(activity_logs) < MaxLogs
    /\ IF decoded = "ExpiredSignatureError"
       THEN /\ last' = Reply("reset_password", 0, new_password, 401, "Token has expired", {})
            /\ UNCHANGED << users, activity_logs >>
       ELSE IF decoded = "JWTError"
       THEN /\ last' = Reply("reset_password", 0, new_password, 401, "Invalid token", {})
            /\ UNCHANGED << users, activity_logs >>
       ELSE IF user = NoUser
       THEN /\ last' = Reply("reset_password", 0, new_password, 404,
                             "User does not exist", {})
            /\ UNCHANGED << users, activity_logs >>
       ELSE /\ users' = (users \ { user }) \cup
                        { [ user EXCEPT !.password_hash = bcrypt_hash(new_password) ] }
            /\ activity_logs' = create_activity_log(user.id, "Password Reset")
            /\ last' = Reply("reset_password", user.id, new_password, 200, "", { user.id })
    /\ UNCHANGED << clock, tokens, appointments, prescriptions, dbOther, medical_info,
                    verification_codes >>

-----------------------------------------------------------------------------
(* Time *)

Tick ==
    /\ clock < MaxTicks * TickSeconds
    /\ clock' = clock + TickSeconds
    /\ last' = [ NoRequest EXCEPT !.op = "Tick" ]
    /\ UNCHANGED << users, tokens, appointments, prescriptions, dbOther,
                    medical_info, activity_logs, verification_codes >>

-----------------------------------------------------------------------------
(* The deployed database, and the requests of the model *)

SeedAppointments ==
    { [ id |-> 1, patient_id |-> 4, clinician_id |-> 2, scheduled_at |-> 7200,
        status |-> SCHEDULED, cancellation_reason |-> Null,
        created_at |-> 0, updated_at |-> 0 ],
      [ id |-> 2, patient_id |-> 5, clinician_id |-> 3, scheduled_at |-> 7200,
        status |-> SCHEDULED, cancellation_reason |-> Null,
        created_at |-> 0, updated_at |-> 0 ] }

SeedPrescription(appointment_id, status) ==
    [ id |-> appointment_id, appointment_id |-> appointment_id,
      issued_by_doctor_id |-> 6, pharmacy_name |-> "Main Pharmacy",
      status |-> status ]

SeedPayments == { [ id |-> 1, appointment_id |-> 1, user_id |-> 4, status |-> "completed" ] }

SeedVideoConsultations ==
    { [ id |-> 1, appointment_id |-> 1, doctor_id |-> 2, patient_id |-> 4,
        status |-> "waiting" ] }

SeedChatMessages ==
    { [ id |-> 1, sender_id |-> 4, recipient_id |-> 2, appointment_id |-> 1,
        is_read |-> FALSE ] }

\* the tokens of users who logged in at time 0
SeedTokens(user_ids) ==
    { create_access_token(u.full_name, u.id, u.role, SecondsPerHour) :
        u \in { v \in SeedUsers : v.id \in user_ids } }

\* the state every specification starts from, but for prescriptions and tokens
InitDatabase ==
    /\ clock = 0
    /\ users = SeedUsers
    /\ appointments = SeedAppointments
    /\ payments = SeedPayments
    /\ video_consultations = SeedVideoConsultations
    /\ chat_messages = SeedChatMessages
    /\ medical_info = {}
    /\ activity_logs = << >>
    /\ verification_codes = [ p \in Procs |-> {} ]
    /\ medications = {}
    /\ staff_roles = {}
    /\ profiles = {}
    /\ auth_tokens = {}
    /\ pending = {}
    /\ last = NoRequest

AppointmentCreateRequests ==
    [ patient_id : PayloadPatientIds, clinician_id : PayloadClinicianIds,
      scheduled_at : { 7200 } ]

AppointmentRescheduleRequests ==
    [ scheduled_at : { 10800, UnsetInt, NullInt } ]

CancellationReasons == { Null, "changed plans" }

(* Appointments: booking, reading and cancelling.  The callers are the     *)
(* super admin 1, the clinician admins 2 and 3, the patients 4 and 5, and  *)
(* the bearer of a forged token.                                           *)

Init ==
    /\ InitDatabase
    /\ prescriptions = { SeedPrescription(1, PENDING) }
    /\ tokens = SeedTokens({ 1, 2, 3, 4, 5 })

Next ==
    \/ \E token \in Bearer, payload \in AppointmentCreateRequests :
          create_appointment(token, payload)
    \/ \E token \in Bearer, status_filter \in { Null, CANCELLED } :
          list_appointments(token, status_filter)
    \/ \E token \in Bearer, id \in AppointmentIds : get_appointment(token, id)
    \/ \E token \in Bearer, id \in AppointmentIds, reason \in CancellationReasons :
          cancel_appointment(token, id, reason)

Spec == Init /\ [][Next]_vars

-----------------------------------------------------------------------------
(* Statements about appointments, checked under Spec *)

PatientCaller(r) == r.caller # 0 /\ UserById(r.caller).role = PATIENT

ClinicianAdminCaller(r) == r.caller # 0 /\ UserById(r.caller).role = CLINICIAN_ADMIN

ReadOrCancel == { "get_appointment", "list_appointments", "cancel_appointment" }

\* C1: a patient reads (get_appointment, list_appointments) and cancels
\* (cancel_appointment) only appointments whose patient_id is the patient's
\* own id; a get or cancel of another patient's appointment is answered 403
\* and leaves every appointment as it was.
C1_PatientOwnAppointmentsOnly ==
    [][ LET r == last' IN
        (r.op \in ReadOrCancel /\ PatientCaller(r)) =>
            /\ \A a \in appointments' : a.id \in r.result => a.patient_id = r.caller
            /\ \A a \in appointments : a.patient_id # r.caller => a \in appointments'
            /\ ( /\ r.op # "list_appointments"
                 /\ \E a \in appointments : a.id = r.target /\ a.patient_id # r.caller )
               => (r.status = 403 /\ appointments' = appointments)
      ]_vars

\* a patient asked to cancel another patient's appointment and got 403
C1_Witness ==
    /\ last.op = "cancel_appointment"
    /\ PatientCaller(last)
    /\ \E a \in appointments : a.id = last.target /\ a.patient_id # last.caller
    /\ last.status = 403

\* C2: a clinician_admin is given (get_appointment, list_appointments) or
\* cancels (cancel_appointment) only appointments whose clinician_id is the
\* caller's id.
C2_ClinicianAdminAssignedOnly ==
    (last.op \in ReadOrCancel /\ ClinicianAdminCaller(last) /\ last.status = 200) =>
        \A a \in appointments : a.id \in last.result => a.clinician_id = last.caller

\* C10: a patient books only for themselves (otherwise 403 and no row is
\* created); a request that is not answered 200 creates no row; and in every
\* row written patient_id is an existing user with role patient and
\* clinician_id an existing user.
C10_PatientsBookForThemselves ==
    [][ LET r == last' IN
        /\ r.op = "create_appointment" =>
              /\ (PatientCaller(r) /\ r.request.patient_id # r.caller) =>
                    (r.status = 403 /\ appointments' = appointments)
              /\ r.status # 200 => appointments' = appointments
              /\ r.status = 200 =>
                    \E a \in appointments' \ appointments :
                       /\ a.id = r.target /\ a.id \notin { b.id : b \in appointments }
                       /\ a.patient_id = r.request.patient_id
                       /\ a.clinician_id = r.request.clinician_id
        /\ \A a \in appointments' \ appointments :
              /\ \E u \in users' : u.id = a.patient_id /\ u.role = PATIENT
              /\ \E u \in users' : u.id = a.clinician_id
      ]_vars

\* a patient asked to book for another patient and got 403
C10_Witness ==
    /\ last.op = "create_appointment"
    /\ PatientCaller(last)
    /\ last.request.patient_id # last.caller
    /\ last.request.patient_id \in { u.id : u \in users }
    /\ last.status = 403

-----------------------------------------------------------------------------
(* Prescriptions and the admin-only updates.  The callers are the super    *)
(* admin 1, the clinician admin 2, the patient 4 and the bearer of a       *)
(* forged token; each seeded appointment may have a pending prescription.  *)

SeedPrescriptions ==
    { p1 \cup p2 :
        p1 \in { {}, { SeedPrescription(1, PENDING) } },
        p2 \in { {}, { SeedPrescription(2, PENDING) } } }

InitRx ==
    /\ InitDatabase
    /\ prescriptions \in SeedPrescriptions
    /\ tokens = SeedTokens({ 1, 2, 4 })

PrescriptionCreateRequests ==
    [ appointment_id : { 1, 2, MaxAppointments + 1, NullInt }, doctor_id : { 6 },
      pharmacy_name : { Null } ]

PrescriptionUpdateRequests ==
    [ pharmacy_name : { Unset }, status : PrescriptionStatusNames \cup { Unset, Null } ]
    \cup [ pharmacy_name : { "City Pharmacy" }, status : { Unset } ]

NextRx ==
    \/ \E token \in Bearer, payload \in PrescriptionCreateRequests :
          create_prescription(token, payload)
    \/ \E token \in Bearer, id \in PrescriptionIds,
           payload \in PrescriptionUpdateRequests :
          update_prescription(token, id, payload)
    \/ \E token \in Bearer, id \in PrescriptionIds : delete_prescription(token, id)
    \/ \E token \in Bearer, id \in { 2, MaxAppointments + 1 },
           payload \in AppointmentRescheduleRequests :
          update_appointment(token, id, payload)

SpecRx == InitRx /\ [][NextRx]_vars

AdminRoles == { SUPER_ADMIN, CLINICIAN_ADMIN }

AdminOnly == { "update_appointment", "update_prescription" }

\* what a request answered 200 asked for is what the row now holds
UpdateApplied(r) ==
    IF r.op = "update_appointment"
    THEN \E a \in appointments' :
            /\ a.id = r.target
            /\ r.request.scheduled_at # UnsetInt => a.scheduled_at = r.request.scheduled_at
    ELSE \E p \in prescriptions' :
            /\ p.id = r.target
            /\ r.request.pharmacy_name # Unset => p.pharmacy_name = r.request.pharmacy_name

TargetExists(r) ==
    IF r.op = "update_appointment" THEN AppointmentExists(r.target)
    ELSE PrescriptionExists(r.target)

OnePrescriptionPerAppointment ==
    \A p, q \in prescriptions : p.appointment_id = q.appointment_id => p = q

\* C4: no two stored prescriptions refer to the same appointment, and a
\* create_prescription for an appointment that has a prescription fails
\* and leaves the prescriptions as they were.
C4_OnePrescriptionPerAppointment ==
    /\ []OnePrescriptionPerAppointment
    /\ [][ LET r == last' IN
           ( /\ r.op = "create_prescription"
             /\ \E p \in prescriptions : p.appointment_id = r.target )
           => (r.status # 200 /\ prescriptions' = prescriptions)
         ]_vars

\* a prescriber asked for a second prescription of an appointment and failed
C4_Witness ==
    /\ last.op = "create_prescription"
    /\ last.caller # 0 /\ UserById(last.caller).role \in PrescriberRoles
    /\ \E p \in prescriptions : p.appointment_id = last.target
    /\ last.status = 500

-----------------------------------------------------------------------------
(* Cancelling as time passes.  The callers are as under Spec.              *)

NextCancel ==
    \/ \E token \in Bearer, id \in AppointmentIds, reason \in CancellationReasons :
          cancel_appointment(token, id, reason)
    \/ Tick

SpecCancel == Init /\ [][NextCancel]_vars

\* the step is a cancel_appointment answered 200 that wrote `after` over `before`
CancelWrote(r, before, after) ==
    /\ before \in appointments /\ before.id = r.target
    /\ after \in appointments' /\ after.id = r.target
    /\ appointments' \ { after } = appointments \ { before }
    /\ after.status = CANCELLED
    /\ after.cancellation_reason = r.request
    /\ UNCHANGED << users, prescriptions, payments, video_consultations,
                    chat_messages, medical_info, activity_logs >>

\* C6 as stated: a successful cancel_appointment changes the target's
\* status and cancellation_reason and nothing else.
C6_CancelChangesStatusAndReasonOnly ==
    [][ LET r == last' IN
        (r.op = "cancel_appointment" /\ r.status = 200) =>
            \E before \in appointments, after \in appointments' :
               /\ CancelWrote(r, before, after)
               /\ after = [ before EXCEPT !.status = CANCELLED,
                                          !.cancellation_reason = r.request ]
      ]_vars

\* C6 amended: a successful cancel_appointment changes the target's status,
\* cancellation_reason and, when either of them changed, updated_at (to the
\* time of the request); every other field of the row, every other
\* appointment and every other table are left as they were.
C6_CancelChangesStatusReasonUpdatedAt ==
    [][ LET r == last' IN
        (r.op = "cancel_appointment" /\ r.status = 200) =>
            \E before \in appointments, after \in appointments' :
               /\ CancelWrote(r, before, after)
               /\ after = [ before EXCEPT !.status = CANCELLED,
                                          !.cancellation_reason = r.request,
                                          !.updated_at = after.updated_at ]
               /\ after.updated_at =
                     IF before.status = CANCELLED /\ before.cancellation_reason = r.request
                     THEN before.updated_at ELSE clock
      ]_vars

\* an appointment booked at 0 was cancelled later, with a reason
C6_Witness ==
    /\ last.op = "cancel_appointment" /\ last.status = 200
    /\ \E a \in appointments :
          /\ a.id = last.target /\ a.status = CANCELLED
          /\ a.cancellation_reason = "changed plans"
          /\ a.updated_at > a.created_at
    /\ \E a \in appointments : a.id # last.target /\ a.status = SCHEDULED

-----------------------------------------------------------------------------
(* Password reset codes on two server processes.  Patient 4 and an unknown *)
(* address ask for codes; nobody has logged in.                            *)

InitNoTokens ==
    /\ InitDatabase
    /\ prescriptions = { SeedPrescription(1, PENDING) }
    /\ tokens = {}

ResetEmails == { "p4@x", "nobody@x" }

VerifyCodeRequests == [ email : ResetEmails, code : VerificationCodes ]

ResetPasswordWithCodeRequests ==
    [ email : ResetEmails, code : VerificationCodes, new_password : { "pw2" } ]

NextCodes ==
    \/ \E p \in Procs, email \in ResetEmails : forgot_password(p, email)
    \/ \E p \in Procs, verify_request \in VerifyCodeRequests :
          verify_reset_code(p, verify_request)
    \/ \E p \in Procs, reset_request \in ResetPasswordWithCodeRequests :
          reset_password_with_code(p, reset_request)
    \/ \E p \in Procs : Restart(p)
    \/ Tick

SpecCodes == InitNoTokens /\ [][NextCodes]_vars

CodeChecks == { "verify_reset_code", "reset_password_with_code" }

\* C7: verification codes are local to a server process.  A process accepts
\* a code only if its own dict holds that code for that email, unexpired; a
\* process whose dict has no entry for the email answers 400 'No
\* verification code found for this email' whatever the other processes
\* hold; forgot_password writes the dict of its own process only; and a
\* process that restarts has no codes.
C7_CodesAreProcessLocal ==
    [][ LET r == last' IN
        /\ r.op \in CodeChecks =>
              /\ r.status = 200 =>
                    \E e \in verification_codes[r.target] :
                       /\ e.email = r.request.email /\ e.code = r.request.code
                       /\ clock - e.timestamp <= SecondsPerHour
              /\ (\A e \in verification_codes[r.target] : e.email # r.request.email) =>
                    /\ r.status = 400
                    /\ r.detail = "No verification code found for this email"
        /\ r.op \in CodeChecks \cup { "forgot_password", "Restart" } =>
              \A q \in Procs \ { r.target } :
                 verification_codes'[q] = verification_codes[q]
        /\ r.op = "Restart" => verification_codes'[r.target] = {}
      ]_vars

\* process 2 knows no code for an address whose valid code process 1 holds
C7_Witness ==
    /\ last.op = "verify_reset_code" /\ last.target = 2
    /\ last.status = 400
    /\ last.detail = "No verification code found for this email"
    /\ \E e \in verification_codes[1] :
          /\ e.email = last.request.email /\ e.code = last.request.code
          /\ clock - e.timestamp <= SecondsPerHour

-----------------------------------------------------------------------------
(* Tokens as time passes: patient 4 logs in and reads the profile.         *)

LoginUserRequests == [ email : ResetEmails, password : { "pw1", "pw2" } ]

NextTokens ==
    \/ \E form_data \in LoginUserRequests : login(form_data)
    \/ \E token \in Bearer : get_current_user_profile(token)
    \/ Tick

SpecTokens == InitNoTokens /\ [][NextTokens]_vars

\* C8: login answers expires_in = 3600, and a guarded endpoint accepts a
\* token of login exactly before its issue time + 3600 seconds; from that
\* instant on it answers 401.
C8_TokenValidBeforeOneHour ==
    [][ LET r == last' IN
        /\ (r.op = "login" /\ r.status = 200) =>
              /\ r.result.expires_in = SecondsPerHour
              /\ r.result.access_token.exp = clock + r.result.expires_in
        /\ (r.op = "get_current_user_profile" /\ r.request \in tokens) =>
              r.status = IF clock < r.request.iat + SecondsPerHour THEN 200 ELSE 401
      ]_vars

-----------------------------------------------------------------------------
(* The activity log: patient 4 logs in, resets the password both ways,     *)
(* updates the profile and the medical information.                        *)

ProfileUpdates ==
    { [ phone |-> "0700" ], [ full_name |-> Null ], [ role |-> SUPER_ADMIN ] }

MedicalInfoRequests == [ allergies : { Unset, "[Peanuts]" } ]

NextLogs ==
    \/ \E form_data \in LoginUserRequests : login(form_data)
    \/ \E token \in Bearer, update_data \in ProfileUpdates :
          update_current_user_profile(token, update_data)
    \/ \E token \in Bearer, medical_update \in MedicalInfoRequests :
          update_medical_info(token, medical_update)
    \/ \E email \in ResetEmails : forgot_password(1, email)
    \/ \E reset_request \in ResetPasswordWithCodeRequests :
          reset_password_with_code(1, reset_request)
    \/ \E token \in Bearer : reset_password(token, "pw2")

SpecLogs == InitNoTokens /\ [][NextLogs]_vars

\* the action each logged operation records
LoggedAction(op) ==
    CASE op = "login" -> "Login"
      [] op = "update_current_user_profile" -> "Profile Update"
      [] OTHER -> "Password Reset"

\* the user a logged operation acts for
LoggedUser(r) ==
    IF r.op = "update_current_user_profile" THEN r.caller
    ELSE IF r.op = "reset_password_with_code" THEN CHOOSE u \in r.result : TRUE
    ELSE r.target

LoggedOps ==
    { "login", "reset_password", "reset_password_with_code",
      "update_current_user_profile" }

\* C9: a login, password reset (by code or by token) or profile update that
\* succeeds appends exactly one ActivityLog row, with the acting user's id
\* and its action; one that fails appends none.
C9_OneLogRowPerSuccess ==
    [][ LET r == last' IN
        r.op \in LoggedOps =>
            IF r.status = 200
            THEN /\ Len(activity_logs') = Len(activity_logs) + 1
                 /\ SubSeq(activity_logs', 1, Len(activity_logs)) = activity_logs
                 /\ activity_logs'[Len(activity_logs')].action = LoggedAction(r.op)
                 /\ activity_logs'[Len(activity_logs')].user_id = LoggedUser(r)
            ELSE activity_logs' = activity_logs
      ]_vars

-----------------------------------------------------------------------------
(* Registration.  A registration handler looks the email up, builds the    *)
(* users row and commits it.  Two requests served at the same time may     *)
(* both look up before either commits: `pending` holds the requests that   *)
(* are between their lookup and their commit, one per database connection, *)
(* and last.status is 0 while a request has not been answered.             *)

MaxPending == 2
MaxUsers == 9

Connections == 1 .. MaxPending

FreeConnection == CHOOSE c \in Connections : \A p \in pending : p.conn # c

\* a request that passed its checks and holds the row it is about to commit
InFlight(op, caller, email, role, staff_role_id, profile) ==
    [ conn |-> FreeConnection, op |-> op, caller |-> caller, email |-> email,
      role |-> role, staff_role_id |-> staff_role_id, profile |-> profile,
      is_verified |-> FALSE ]

\* the handler may start: a connection is free (and the model's table has room)
CanStart ==
    /\ Cardinality(pending) < MaxPending
    /\ Cardinality(users) + Cardinality(pending) < MaxUsers

EmailExists(email) == \E u \in users : u.email = email

\* users.id is an autoincrement primary key
NextUserId ==
    LET ids == { u.id : u \in users } IN
    IF ids = {} THEN 1 ELSE 1 + (CHOOSE i \in ids : \A j \in ids : j <= i)

StaffRoleExists(role_id) == \E r \in staff_roles : r.id = role_id

\* a users table without the UNIQUE constraint on email
InsertUserAllowed_NoUnique(row) ==
    row.staff_role_id = Null \/ StaffRoleExists(row.staff_role_id)

\* what the users table accepts: email is UNIQUE, staff_role_id is a
\* FOREIGN KEY to staff_roles.id
InsertUserAllowed(row) ==
    /\ ~EmailExists(row.email)
    /\ row.staff_role_id = Null \/ StaffRoleExists(row.staff_role_id)

\* str.lower() on the strings of the model
lower(s) ==
    CASE s = "Aspirin" -> "aspirin"
      [] s = "ASPIRIN" -> "aspirin"
      [] s = "Nurse" -> "nurse"
      [] s = "Ibuprofen" -> "ibuprofen"
      [] OTHER -> s

regOther == << clock, tokens, appointments, prescriptions, payments,
               video_consultations, chat_messages, medical_info, activity_logs,
               verification_codes, medications, auth_tokens >>

\* the shape shared by register_customer, register_admin, register_doctor
\* and create_user_account, up to db.add: the lookup by email and the row
\* (the requests of the model carry no date_of_birth)
register_user(op, role, detail, create_user_request) ==
    /\ CanStart
    /\ IF EmailExists(create_user_request.email)
       THEN /\ last' = Reply(op, 0, create_user_request, 400, detail, {})
            /\ UNCHANGED pending
       ELSE /\ pending' = pending \cup
                 { InFlight(op, 0, create_user_request.email, role, Null, Null) }
            /\ last' = Reply(op, 0, create_user_request, 0, "", {})
    /\ UNCHANGED << users, profiles, staff_roles, regOther >>

\* POST /auth/register/customer
register_customer(create_user_request) ==
    register_user("register_customer", PATIENT, "Email already exists",
                  create_user_request)

\* POST /auth/register/admin: no dependency but the database session
register_admin(create_user_request) ==
    register_user("register_admin", CLINICIAN_ADMIN, "Email already exists",
                  create_user_request)

\* POST /auth/register/doctor
register_doctor(create_user_request) ==
    register_user("register_doctor", DOCTOR, "Email already exists",
                  create_user_request)

\* POST /users
create_user_account(payload) ==
    register_user("create_user_account", PATIENT, "Email is already registered.",
                  payload)

valid_staff_roles == { "doctor", "nurse", "receptionist", "lab_technician", "pharmacist" }

\* role_mapping.get(name): the Role of a staff role name, Null for None
role_mapping(name) == IF name \in valid_staff_roles THEN name ELSE Null

\* the table of the role-specific record
ProfileTable(role) ==
    CASE role = DOCTOR -> "doctors"
      [] role = NURSE -> "nurses"
      [] role = RECEPTIONIST -> "receptionists"
      [] role = LAB_TECHNICIAN -> "lab_technicians"
      [] role = PHARMACIST -> "pharmacists"
      [] OTHER -> Null

\* POST /auth/register/staff, up to db.add
register_staff(create_staff_request) ==
    /\ CanStart
    /\ IF EmailExists(create_staff_request.email)
       THEN /\ last' = Reply("register_staff", 0, create_staff_request, 400,
                             "Email already exists", {})
            /\ UNCHANGED pending
       ELSE IF create_staff_request.role \notin valid_staff_roles
       THEN /\ last' = Reply("register_staff", 0, create_staff_request, 400,
                             "Invalid role. Must be one of", {})
            /\ UNCHANGED pending
       ELSE LET role_enum == role_mapping(lower(create_staff_request.role)) IN
            /\ pending' = pending \cup
                 { InFlight("register_staff", 0, create_staff_request.email,
                            role_enum, Null, ProfileTable(role_enum)) }
            /\ last' = Reply("register_staff", 0, create_staff_request, 0, "", {})
    /\ UNCHANGED << users, profiles, staff_roles, regOther >>

\* POST /staff, up to db.add.  payload: StaffCreateRequest, with the fields
\* of account and profile the handler's checks read
create_staff_member(token, payload) ==
    LET auth == require_admin({ SUPER_ADMIN, CLINICIAN_ADMIN }, token)
        found == { r \in staff_roles : r.name = payload.role /\ r.is_active }
        staff_role == CHOOSE r \in found : TRUE
        user_role == role_mapping(lower(payload.role))
    IN
    /\ CanStart
    /\ IF auth.status # 200
       THEN /\ last' = Respond("create_staff_member", auth, 0, payload,
                               auth.status, auth.detail, {})
            /\ UNCHANGED pending
       ELSE IF found = {}
       THEN /\ last' = Respond("create_staff_member", auth, 0, payload, 400,
                               "Staff role not found or inactive", {})
            /\ UNCHANGED pending
       ELSE IF EmailExists(payload.email)
       THEN /\ last' = Respond("create_staff_member", auth, 0, payload, 400,
                               "Email is already registered", {})
            /\ UNCHANGED pending
       ELSE IF staff_role.requires_specialization /\ payload.specialization = Null
       THEN /\ last' = Respond("create_staff_member", auth, 0, payload, 400,
                               "Specialization is required for this role", {})
            /\ UNCHANGED pending
       ELSE IF staff_role.requires_license /\ payload.license_number = Null
       THEN /\ last' = Respond("create_staff_member", auth, 0, payload, 400,
                               "License number is required for this role", {})
            /\ UNCHANGED pending
       ELSE IF user_role = Null
       THEN /\ last' = Respond("create_staff_member", auth, 0, payload, 400,
                               "Invalid role", {})
            /\ UNCHANGED pending
       ELSE /\ pending' = pending \cup
                 { InFlight("create_staff_member", auth.user.id, payload.email,
                            user_role, staff_role.id, ProfileTable(user_role)) }
            /\ last' = Respond("create_staff_member", auth, 0, payload, 0, "", {})
    /\ UNCHANGED << users, profiles, staff_roles, regOther >>

RegistrationOps ==
    { "register_customer", "register_admin", "register_doctor", "register_staff",
      "create_user_account", "create_staff_member" }

\* db.add(user); db.commit() and what follows it, for the request p in
\* flight.  The INSERT fails with IntegrityError when the table refuses the
\* row: the auth_router handlers do not catch it, create_user_account and
\* create_staff_member answer 500 themselves.  register_staff and
\* create_staff_member add the role-specific record after the user's commit.
db_commit_user(p) ==
    LET row == [ User(NextUserId, p.email, p.role)
                   EXCEPT !.staff_role_id = p.staff_role_id,
                          !.is_verified = p.is_verified ]
        request == [ email |-> p.email ]
    IN
    /\ p.op \in RegistrationOps
    /\ pending' = pending \ { p }
    /\ IF InsertUserAllowed(row)
       THEN /\ users' = users \cup { row }
            /\ profiles' = IF p.profile = Null THEN profiles
                           ELSE profiles \cup { [ table |-> p.profile, user_id |-> row.id ] }
            /\ last' = [ op |-> p.op, caller |-> p.caller, target |-> row.id,
                         request |-> request, status |-> 200, detail |-> "",
                         result |-> { row.id } ]
       ELSE /\ last' = [ op |-> p.op, caller |-> p.caller, target |-> 0,
                         request |-> request, status |-> 500,
                         detail |-> "IntegrityError", result |-> {} ]
            /\ UNCHANGED << users, profiles >>
    /\ UNCHANGED << staff_roles, regOther >>

(* Registration requests: a new address, and the address of patient 4 *)

RegisterEmails == { "new@x", "p4@x" }

CreateUserRequests == [ email : RegisterEmails ]

CreateStaffRequests == [ email : RegisterEmails, role : { "nurse", "janitor" } ]

StaffCreateRequests ==
    [ email : RegisterEmails, role : { "nurse", "janitor" },
      specialization : { Null }, license_number : { Null, "L1" } ]

StaffRole(id, name, is_active) ==
    [ id |-> id, name |-> name, is_active |-> is_active,
      requires_specialization |-> FALSE, requires_license |-> TRUE ]

SeedStaffRoles ==
    { StaffRole("role_nurse", "nurse", TRUE), StaffRole("role_janitor", "janitor", TRUE) }

InitRegister ==
    /\ clock = 0
    /\ users = SeedUsers
    /\ appointments = SeedAppointments
    /\ prescriptions = {}
    /\ payments = {}
    /\ video_consultations = {}
    /\ chat_messages = {}
    /\ medical_info = {}
    /\ activity_logs = << >>
    /\ verification_codes = [ p \in Procs |-> {} ]
    /\ medications = {}
    /\ staff_roles = SeedStaffRoles
    /\ profiles = { [ table |-> "doctors", user_id |-> 6 ] }
    /\ auth_tokens = {}
    /\ pending = {}
    /\ tokens = SeedTokens({ 2, 4 })
    /\ last = NoRequest

NextRegister ==
    \/ \E r \in CreateUserRequests : register_customer(r)
    \/ \E r \in CreateUserRequests : register_admin(r)
    \/ \E r \in CreateUserRequests : register_doctor(r)
    \/ \E r \in CreateStaffRequests : register_staff(r)
    \/ \E r \in CreateUserRequests : create_user_account(r)
    \/ \E token \in Bearer, r \in StaffCreateRequests : create_staff_member(token, r)
    \/ \E p \in pending : db_commit_user(p)

SpecRegister == InitRegister /\ [][NextRegister]_vars

SuperAdminCaller(r) == r.caller # 0 /\ UserById(r.caller).role = SUPER_ADMIN

\* C11: a users row with role clinician_admin is created only by a request
\* authenticated as a super admin.
C11_ClinicianAdminBySuperAdminOnly ==
    [][ \A u \in users' \ users :
           u.role = CLINICIAN_ADMIN => SuperAdminCaller(last') ]_vars
-----------------------------------------------------------------------------
(* src/backend/auth.py: the token-based handlers.  Its tokens carry a type *)
(* besides sub, email and exp; auth_tokens holds the ones it has signed    *)
(* (returned by login and refresh_token, mailed by register,               *)
(* forgot_password and resend_verification).  The operation names of this  *)
(* module start with "auth." in `last`.                                    *)

MaxAuthTokens == 2

ACCESS_TOKEN_EXPIRE_MINUTES == 60
REFRESH_TOKEN_EXPIRE_DAYS == 7
SecondsPerMinute == 60
HoursPerDay == 24

\* the columns of models.User together with "is_active"
UserAttributes_WithIsActive ==
    { "id", "full_name", "email", "password_hash", "phone", "gender",
      "date_of_birth", "address", "profile_picture", "is_verified", "last_login",
      "role", "staff_role_id", "created_at", "updated_at", "is_active" }

\* the columns of models.User: what User(...) accepts as keyword and what
\* a User instance has as attribute
UserAttributes ==
    { "id", "full_name", "email", "password_hash", "phone", "gender",
      "date_of_birth", "address", "profile_picture", "is_verified", "last_login",
      "role", "staff_role_id", "created_at", "updated_at" }

\* the keywords register, register_super_admin and register_admin pass to User
auth_User_kwargs ==
    { "full_name", "email", "password_hash", "phone", "gender", "date_of_birth",
      "role", "is_active", "is_verified" }

\* user.is_active is readable (and then holds the value the handlers of this
\* module store, True)
HasIsActive == "is_active" \in UserAttributes

\* the fields of ResetPasswordRequest
ResetPasswordRequest_fields == { "new_password" }

ACCESS == "access"
REFRESH == "refresh"
PASSWORD_RESET == "password_reset"
EMAIL_VERIFICATION == "email_verification"
TokenTypes == { ACCESS, REFRESH, PASSWORD_RESET, EMAIL_VERIFICATION }

auth_encode(type, user_id, email, expires_delta) ==
    [ type |-> type, sub |-> user_id, email |-> email,
      exp |-> clock + expires_delta, sig |-> TRUE ]

auth_create_access_token(user) ==
    auth_encode(ACCESS, user.id, user.email, ACCESS_TOKEN_EXPIRE_MINUTES * SecondsPerMinute)

create_refresh_token(user) ==
    auth_encode(REFRESH, user.id, user.email,
                REFRESH_TOKEN_EXPIRE_DAYS * HoursPerDay * SecondsPerHour)

create_password_reset_token(user_id, email) ==
    auth_encode(PASSWORD_RESET, user_id, email, SecondsPerHour)

create_email_verification_token(user_id, email) ==
    auth_encode(EMAIL_VERIFICATION, user_id, email, HoursPerDay * SecondsPerHour)

NoPayload == [ type |-> Null, sub |-> 0, email |-> Null, exp |-> 0, sig |-> FALSE ]

\* a decode_token that does not verify the signature
decode_token_NoSignature(token) ==
    IF token.exp >= clock THEN token ELSE NoPayload

\* decode_token: the payload, NoPayload for None (bad signature or exp < now)
decode_token(token) ==
    IF token.sig /\ token.exp >= clock THEN token ELSE NoPayload

\* tokens somebody signed without SECRET_KEY, one of each type, for user 4
auth_ForgedTokens ==
    { [ type |-> t, sub |-> 4, email |-> "p4@x", exp |-> 1000000, sig |-> FALSE ] :
        t \in TokenTypes }

auth_Bearer == auth_tokens \cup auth_ForgedTokens

\* the model keeps at most MaxAuthTokens tokens in circulation: a handler
\* that may sign one runs while there is room
CanIssue == Cardinality(auth_tokens) < MaxAuthTokens

\* get_current_user of auth.py
auth_get_current_user(token) ==
    LET payload == decode_token(token) IN
    IF payload = NoPayload \/ payload.type # ACCESS \/ ~UserExists(payload.sub)
    THEN [ status |-> 401, detail |-> "Could not validate credentials", user |-> NoUser ]
    ELSE IF ~HasIsActive
    THEN [ status |-> 500, detail |-> "AttributeError", user |-> NoUser ]
    ELSE IF ~UserById(payload.sub).is_verified
    THEN [ status |-> 403, detail |-> "Please verify your email before logging in",
           user |-> NoUser ]
    ELSE [ status |-> 200, detail |-> "", user |-> UserById(payload.sub) ]

authOther == << clock, tokens, appointments, prescriptions, payments,
                video_consultations, chat_messages, medical_info, activity_logs,
                verification_codes, medications, staff_roles, profiles >>

\* GET /auth/me
get_me(token) ==
    LET auth == auth_get_current_user(token) IN
    /\ last' = [ op |-> "auth.get_me", caller |-> auth.user.id, target |-> token.sub,
                 request |-> token, status |-> auth.status, detail |-> auth.detail,
                 result |-> {} ]
    /\ UNCHANGED << users, auth_tokens, pending, authOther >>

\* POST /auth/register, up to the construction of the row
auth_register(user_data) ==
    /\ CanStart
    /\ CanIssue
    /\ IF EmailExists(user_data.email)
       THEN /\ last' = Reply("auth.register", 0, user_data, 400,
                             "Email already registered", {})
            /\ UNCHANGED pending
       ELSE /\ pending' = pending \cup
                 { InFlight("auth.register", 0, user_data.email, PATIENT, Null, Null) }
            /\ last' = Reply("auth.register", 0, user_data, 0, "", {})
    /\ UNCHANGED << users, auth_tokens, authOther >>

SuperAdminExists == \E u \in users : u.role = SUPER_ADMIN

\* POST /auth/register/super-admin, up to the construction of the row
register_super_admin(user_data) ==
    /\ CanStart
    /\ IF SuperAdminExists
       THEN /\ last' = Reply("auth.register_super_admin", 0, user_data, 403,
                             "Super admin already exists", {})
            /\ UNCHANGED pending
       ELSE IF EmailExists(user_data.email)
       THEN /\ last' = Reply("auth.register_super_admin", 0, user_data, 400,
                             "Email already registered", {})
            /\ UNCHANGED pending
       ELSE /\ pending' = pending \cup
                 { [ InFlight("auth.register_super_admin", 0, user_data.email,
                              SUPER_ADMIN, Null, Null) EXCEPT !.is_verified = TRUE ] }
            /\ last' = Reply("auth.register_super_admin", 0, user_data, 0, "", {})
    /\ UNCHANGED << users, auth_tokens, authOther >>

\* POST /auth/register/admin of auth.py, up to the construction of the row
auth_register_admin(token, user_data) ==
    LET current_user == auth_get_current_user(token) IN
    /\ CanStart
    /\ IF current_user.status # 200
       THEN /\ last' = Respond("auth.register_admin", current_user, 0, user_data,
                               current_user.status, current_user.detail, {})
            /\ UNCHANGED pending
       ELSE IF current_user.user.role # SUPER_ADMIN
       THEN /\ last' = Respond("auth.register_admin", current_user, 0, user_data, 403,
                               "Only super admins can create admin accounts", {})
            /\ UNCHANGED pending
       ELSE IF EmailExists(user_data.email)
       THEN /\ last' = Respond("auth.register_admin", current_user, 0, user_data, 400,
                               "Email already registered", {})
            /\ UNCHANGED pending
       ELSE /\ pending' = pending \cup
                 { [ InFlight("auth.register_admin", current_user.user.id,
                              user_data.email, CLINICIAN_ADMIN, Null, Null)
                       EXCEPT !.is_verified = TRUE ] }
            /\ last' = Respond("auth.register_admin", current_user, 0, user_data, 0,
                               "", {})
    /\ UNCHANGED << users, auth_tokens, authOther >>

AuthRegistrationOps ==
    { "auth.register", "auth.register_super_admin", "auth.register_admin" }

\* new_user = User(..., is_active=True, is_verified=...); db.add; db.commit
\* for the request p in flight.  The declarative constructor raises
\* TypeError for a keyword that is not an attribute of the class, which the
\* handlers do not catch; IntegrityError they answer with 400.  register
\* mails an email_verification token after its commit.
auth_commit_user(p) ==
    LET row == [ User(NextUserId, p.email, p.role) EXCEPT !.is_verified = p.is_verified ]
        answer(status, detail, id) ==
            [ op |-> p.op, caller |-> p.caller, target |-> id,
              request |-> [ email |-> p.email ], status |-> status,
              detail |-> detail, result |-> IF id = 0 THEN {} ELSE { id } ]
    IN
    /\ p.op \in AuthRegistrationOps
    /\ pending' = pending \ { p }
    /\ IF ~(auth_User_kwargs \subseteq UserAttributes)
       THEN /\ last' = answer(500, "TypeError", 0)
            /\ UNCHANGED << users, auth_tokens >>
       ELSE IF InsertUserAllowed(row)
       THEN /\ users' = users \cup { row }
            /\ auth_tokens' =
                 IF p.op = "auth.register"
                 THEN auth_tokens \cup { create_email_verification_token(row.id, row.email) }
                 ELSE auth_tokens
            /\ last' = answer(200, "", row.id)
       ELSE /\ last' = answer(400, "IntegrityError", 0)
            /\ UNCHANGED << users, auth_tokens >>
    /\ UNCHANGED authOther

\* POST /auth/login of auth.py.  credentials: LoginRequest (email, password)
auth_login(credentials) ==
    LET user == UserByEmail(credentials.email) IN
    /\ CanIssue
    /\ IF user = NoUser \/ ~bcrypt_verify(credentials.password, user.password_hash)
       THEN /\ last' = Reply("auth.login", user.id, credentials, 401,
                             "Invalid email or password", {})
            /\ UNCHANGED auth_tokens
       ELSE IF ~HasIsActive
       THEN /\ last' = Reply("auth.login", user.id, credentials, 500,
                             "AttributeError", {})
            /\ UNCHANGED auth_tokens
       ELSE IF ~user.is_verified
       THEN /\ last' = Reply("auth.login", user.id, credentials, 403,
                             "Please verify your email before logging in", {})
            /\ UNCHANGED auth_tokens
       ELSE /\ auth_tokens' = auth_tokens \cup { auth_create_access_token(user),
                                      create_refresh_token(user) }
            /\ last' = Reply("auth.login", user.id, credentials, 200, "", { user.id })
    /\ UNCHANGED << users, pending, authOther >>

\* POST /auth/refresh
refresh_token(token) ==
    LET payload == decode_token(token)
        user == UserById(payload.sub)
        answer(status, detail) ==
            [ op |-> "auth.refresh_token", caller |-> 0, target |-> token.sub,
              request |-> token, status |-> status, detail |-> detail,
              result |-> {} ]
    IN
    /\ CanIssue
    /\ IF payload = NoPayload \/ payload.type # REFRESH
       THEN /\ last' = answer(401, "Invalid refresh token")
            /\ UNCHANGED auth_tokens
       ELSE IF user = NoUser
       THEN /\ last' = answer(401, "User not found or inactive")
            /\ UNCHANGED auth_tokens
       ELSE IF ~HasIsActive
       THEN /\ last' = answer(500, "AttributeError")
            /\ UNCHANGED auth_tokens
       ELSE /\ auth_tokens' = auth_tokens \cup { auth_create_access_token(user),
                                      create_refresh_token(user) }
            /\ last' = answer(200, "")
    /\ UNCHANGED << users, pending, authOther >>

\* POST /auth/forgot-password of auth.py: one answer, whether or not the
\* address is registered; the reset token goes out by mail
auth_forgot_password(request) ==
    LET user == UserByEmail(request.email) IN
    /\ CanIssue
    /\ auth_tokens' = IF user = NoUser THEN auth_tokens
                      ELSE auth_tokens \cup { create_password_reset_token(user.id, user.email) }
    /\ last' = Reply("auth.forgot_password", 0, request, 200,
                     "If an account exists, a password reset link has been sent.", {})
    /\ UNCHANGED << users, pending, authOther >>

\* POST /auth/reset-password of auth.py.  The handler reads request.token,
\* and ResetPasswordRequest has the one field new_password
auth_reset_password(token, new_password) ==
    LET payload == decode_token(token)
        answer(status, detail) ==
            [ op |-> "auth.reset_password", caller |-> 0, target |-> token.sub,
              request |-> token, status |-> status, detail |-> detail,
              result |-> {} ]
    IN
    /\ IF "token" \notin ResetPasswordRequest_fields
       THEN /\ last' = answer(500, "AttributeError")
            /\ UNCHANGED users
       ELSE IF payload = NoPayload \/ payload.type # PASSWORD_RESET
       THEN /\ last' = answer(400, "Invalid or expired reset token")
            /\ UNCHANGED users
       ELSE IF ~UserExists(payload.sub)
       THEN /\ last' = answer(404, "User not found")
            /\ UNCHANGED users
       ELSE /\ users' = (users \ { UserById(payload.sub) }) \cup
                 { [ UserById(payload.sub) EXCEPT !.password_hash = bcrypt_hash(new_password) ] }
            /\ last' = answer(200, "Password has been reset successfully")
    /\ UNCHANGED << auth_tokens, pending, authOther >>

\* a verify_email that looks at the signature and the expiry only
verify_email_AnyType(token) ==
    LET payload == decode_token(token)
        answer(status, detail) ==
            [ op |-> "auth.verify_email", caller |-> 0, target |-> token.sub,
              request |-> token, status |-> status, detail |-> detail,
              result |-> {} ]
    IN
    /\ IF payload = NoPayload
       THEN /\ last' = answer(400, "Invalid or expired verification token")
            /\ UNCHANGED users
       ELSE IF ~UserExists(payload.sub)
       THEN /\ last' = answer(404, "User not found")
            /\ UNCHANGED users
       ELSE IF UserById(payload.sub).is_verified
       THEN /\ last' = answer(200, "Email already verified")
            /\ UNCHANGED users
       ELSE /\ users' = (users \ { UserById(payload.sub) }) \cup
                 { [ UserById(payload.sub) EXCEPT !.is_verified = TRUE ] }
            /\ last' = answer(200, "Email verified successfully")
    /\ UNCHANGED << auth_tokens, pending, authOther >>

\* POST /auth/verify-email
verify_email(token) ==
    LET payload == decode_token(token)
        answer(status, detail) ==
            [ op |-> "auth.verify_email", caller |-> 0, target |-> token.sub,
              request |-> token, status |-> status, detail |-> detail,
              result |-> {} ]
    IN
    /\ IF payload = NoPayload \/ payload.type # EMAIL_VERIFICATION
       THEN /\ last' = answer(400, "Invalid or expired verification token")
            /\ UNCHANGED users
       ELSE IF ~UserExists(payload.sub)
       THEN /\ last' = answer(404, "User not found")
            /\ UNCHANGED users
       ELSE IF UserById(payload.sub).is_verified
       THEN /\ last' = answer(200, "Email already verified")
            /\ UNCHANGED users
       ELSE /\ users' = (users \ { UserById(payload.sub) }) \cup
                 { [ UserById(payload.sub) EXCEPT !.is_verified = TRUE ] }
            /\ last' = answer(200, "Email verified successfully")
    /\ UNCHANGED << auth_tokens, pending, authOther >>

\* POST /auth/resend-verification
resend_verification(request) ==
    LET user == UserByEmail(request.email) IN
    /\ CanIssue
    /\ auth_tokens' = IF user # NoUser /\ ~user.is_verified
                      THEN auth_tokens \cup { create_email_verification_token(user.id, user.email) }
                      ELSE auth_tokens
    /\ last' = Reply("auth.resend_verification", 0, request, 200,
                     "If an unverified account exists, a verification link has been sent.",
                     {})
    /\ UNCHANGED << users, pending, authOther >>

(* Registration through auth.py, on a database that has a super admin and  *)
(* on one that has none yet.                                               *)

FreshUsers == { u \in SeedUsers : u.role = PATIENT }

UserCreateRequests == [ email : { "a@x", "b@x", "p4@x" } ]

InitAuthRegister ==
    /\ clock = 0
    /\ users \in { SeedUsers, FreshUsers }
    /\ appointments = {}
    /\ prescriptions = {}
    /\ payments = {}
    /\ video_consultations = {}
    /\ chat_messages = {}
    /\ medical_info = {}
    /\ activity_logs = << >>
    /\ verification_codes = [ p \in Procs |-> {} ]
    /\ medications = {}
    /\ staff_roles = {}
    /\ profiles = {}
    /\ auth_tokens = {}
    /\ pending = {}
    /\ tokens = {}
    /\ last = NoRequest

NextAuthRegister ==
    \/ \E user_data \in UserCreateRequests : auth_register(user_data)
    \/ \E user_data \in UserCreateRequests : register_super_admin(user_data)
    \/ \E token \in auth_Bearer, user_data \in UserCreateRequests :
          auth_register_admin(token, user_data)
    \/ \E p \in pending : auth_commit_user(p)

SpecAuthRegister == InitAuthRegister /\ [][NextAuthRegister]_vars

AtMostOneSuperAdmin == Cardinality({ u \in users : u.role = SUPER_ADMIN }) <= 1

\* C12: register_super_admin creates only the first super admin: at most
\* one user has role super_admin, whatever the interleaving of the calls'
\* lookups and commits; a call creates a user only when no super admin
\* exists; and a call made while one exists is answered 403 at once and
\* changes nothing.
C12_OnlyFirstSuperAdmin ==
    /\ []AtMostOneSuperAdmin
    /\ [][ last'.op = "auth.register_super_admin" =>
             /\ users' # users => ~SuperAdminExists
             /\ (SuperAdminExists /\ pending \subseteq pending') =>
                   (last'.status = 403 /\ users' = users /\ pending' = pending)
         ]_vars

\* of two calls with different emails that both found no super admin, one
\* has been answered and the other is still in flight
C12_Witness ==
    /\ last.op = "auth.register_super_admin"
    /\ last.status # 0
    /\ \E p \in pending :
          p.op = "auth.register_super_admin" /\ p.email # last.request.email

-----------------------------------------------------------------------------
(* Asking for a password reset, for patient 4's address and for an address *)
(* nobody registered: POST /auth/forgot-password of the mounted            *)
(* auth_router.py and the handler of the same path in auth.py.             *)

ForgotPasswordRequests == [ email : ResetEmails ]

NextForgot ==
    \/ \E p \in Procs, email \in ResetEmails : forgot_password(p, email)
    \/ \E request \in ForgotPasswordRequests : auth_forgot_password(request)
    \/ Tick

SpecForgot == InitNoTokens /\ [][NextForgot]_vars

ForgotOps == { "forgot_password", "auth.forgot_password" }

\* C13: forgot_password does not reveal whether an email is registered: any
\* two answers of the handler, whatever the addresses asked for, have the
\* same status and the same body.
C13_ForgotPasswordRevealsNothing ==
    [][ (last'.op \in ForgotOps /\ last.op = last'.op) =>
            (last'.status = last.status /\ last'.detail = last.detail) ]_vars

-----------------------------------------------------------------------------
(* The account life cycle of auth.py: registering, verifying the address,  *)
(* logging in, and the tokens that go with it.  The users of the deployed  *)
(* database were registered through auth_router.py, which leaves           *)
(* is_verified at its default, False.                                      *)

AuthRegisterRequests == [ email : { "a@x", "p4@x" } ]

NewPasswords == { "pw2" }

NextAuth ==
    \/ \E user_data \in AuthRegisterRequests : auth_register(user_data)
    \/ \E p \in pending : auth_commit_user(p)
    \/ \E credentials \in LoginUserRequests : auth_login(credentials)
    \/ \E token \in auth_Bearer : get_me(token)
    \/ \E token \in auth_Bearer : refresh_token(token)
    \/ \E request \in ForgotPasswordRequests : auth_forgot_password(request)
    \/ \E token \in auth_Bearer, new_password \in NewPasswords :
          auth_reset_password(token, new_password)
    \/ \E token \in auth_Bearer : verify_email(token)
    \/ \E request \in ForgotPasswordRequests : resend_verification(request)
    \/ Tick

SpecAuth == InitNoTokens /\ [][NextAuth]_vars

\* the token is one auth.py signed, of the given type, and has not expired
ValidToken(token, type) ==
    token \in auth_tokens /\ token.type = type /\ token.exp >= clock

\* C14: a user created by register is unverified; a login or a
\* get_current_user succeeds only for a verified user; a user becomes
\* verified only through a verify_email call that carries a valid
\* email_verification token of that user; and verify_email on a verified
\* user reports 'already verified' and changes nothing.
C14_UnverifiedUntilVerifyEmail ==
    [][ LET r == last' IN
        /\ \A u \in users' \ users :
              (r.op = "auth.register" /\ ~UserExists(u.id)) => ~u.is_verified
        /\ (r.op \in { "auth.login", "auth.get_me" } /\ r.status = 200) =>
              UserById(r.target).is_verified
        /\ \A u \in users :
              (~u.is_verified /\ \E v \in users' : v.id = u.id /\ v.is_verified) =>
                 /\ r.op = "auth.verify_email" /\ r.status = 200
                 /\ ValidToken(r.request, EMAIL_VERIFICATION)
                 /\ r.request.sub = u.id
        /\ ( /\ r.op = "auth.verify_email"
             /\ ValidToken(r.request, EMAIL_VERIFICATION)
             /\ UserById(r.request.sub).is_verified )
           => (r.status = 200 /\ r.detail = "Email already verified" /\ users' = users)
      ]_vars

\* a second verify_email for a user found the address verified already
C14_Witness ==
    /\ last.op = "auth.verify_email"
    /\ last.detail = "Email already verified"
    /\ UserById(last.target).is_verified

\* the token type each handler of auth.py is meant for
PurposeOf(op) ==
    CASE op = "auth.get_me" -> ACCESS
      [] op = "auth.refresh_token" -> REFRESH
      [] op = "auth.reset_password" -> PASSWORD_RESET
      [] op = "auth.verify_email" -> EMAIL_VERIFICATION
      [] OTHER -> Null

TokenOps ==
    { "auth.get_me", "auth.refresh_token", "auth.reset_password", "auth.verify_email" }

\* C17: get_current_user accepts only tokens of type access, refresh_token
\* only type refresh, reset_password only type password_reset, verify_email
\* only type email_verification; a token of another type is rejected and
\* the request changes no user and signs no token.
C17_TokenAcceptedForItsPurposeOnly ==
    [][ LET r == last' IN
        r.op \in TokenOps =>
           /\ r.status = 200 => r.request.type = PurposeOf(r.op)
           /\ r.request.type # PurposeOf(r.op) =>
                 (r.status # 200 /\ users' = users /\ auth_tokens' = auth_tokens)
      ]_vars

\* verify_email was given an unexpired password_reset token that auth.py
\* signed, and refused it
C17_Witness ==
    /\ last.op = "auth.verify_email"
    /\ ValidToken(last.request, PASSWORD_RESET)
    /\ UserExists(last.request.sub)
    /\ last.status = 400

-----------------------------------------------------------------------------
(* Resetting a password with a code, on the processes and requests of      *)
(* SpecCodes.                                                              *)

PasswordOf(user_id) == UserById(user_id).password_hash

\* C16: reset_password_with_code changes a password only when the code of
\* the request equals the code the handling process stores for the email
\* and that code is no more than one hour old; a success removes the code,
\* and a request for an email without a stored code is answered 400, so a
\* second reset with the same code fails; a missing, wrong or expired code
\* leaves every password unchanged; an expired code is removed on that
\* attempt, a wrong guess leaves the stored codes as they are.
C16_ResetOnlyWithFreshMatchingCode ==
    [][ LET r == last'
            p == r.target
            email == r.request.email
            stored == StoredCode(p, email)
        IN
        /\ users' # users => (r.op = "reset_password_with_code" /\ r.status = 200)
        /\ r.op = "reset_password_with_code" =>
              /\ r.status = 200 =>
                    /\ HasCode(p, email) /\ stored.code = r.request.code
                    /\ clock - stored.timestamp <= SecondsPerHour
                    /\ \E u \in users' :
                          /\ u.id = stored.user_id
                          /\ u.password_hash = bcrypt_hash(r.request.new_password)
                    /\ \A e \in verification_codes'[p] : e.email # email
              /\ ~HasCode(p, email) =>
                    (r.status = 400 /\ verification_codes' = verification_codes)
              /\ (HasCode(p, email) /\ stored.code # r.request.code) =>
                    (r.status = 400 /\ verification_codes' = verification_codes)
              /\ ( /\ HasCode(p, email) /\ stored.code = r.request.code
                   /\ clock - stored.timestamp > SecondsPerHour )
                 => /\ r.status = 400
                    /\ verification_codes' = [ verification_codes EXCEPT ![p] = @ \ { stored } ]
      ]_vars

\* patient 4's password was reset with a code, and the next reset with a
\* code finds no code on any process
C16_Witness ==
    /\ last.op = "reset_password_with_code"
    /\ last.status = 400
    /\ last.detail = "No verification code found for this email"
    /\ last.request.email = "p4@x"
    /\ PasswordOf(4) = bcrypt_hash("pw2")
    /\ \A p \in Procs : ~HasCode(p, "p4@x")
    /\ activity_logs # << >>

-----------------------------------------------------------------------------
(* The pharmacy inventory: POST and PUT /medications.  A row keeps the     *)
(* name and the stock columns; the other columns are copied from the       *)
(* payload and read by nothing in these handlers.                          *)

MaxMedications == 3

MedicationExists(id) == \E m \in medications : m.id = id

MedicationById(id) == CHOOSE m \in medications : m.id = id

\* medications.id is an autoincrement primary key
NextMedicationId ==
    LET ids == { m.id : m \in medications } IN
    IF ids = {} THEN 1 ELSE 1 + (CHOOSE i \in ids : \A j \in ids : j <= i)

\* column.ilike(pattern): LIKE on the lower-cased strings; of the wildcards
\* the model has the pattern "%", which matches every string
ilike(value, pattern) ==
    IF pattern = "%" THEN TRUE ELSE lower(value) = lower(pattern)

medOther == << clock, users, tokens, appointments, prescriptions, payments,
               video_consultations, chat_messages, medical_info, activity_logs,
               verification_codes, staff_roles, profiles, auth_tokens, pending >>

\* POST /medications.  payload: MedicationCreateRequest (name, stock)
create_medication(token, payload) ==
    LET auth == require_admin({ SUPER_ADMIN, CLINICIAN_ADMIN, PHARMACIST }, token)
        in_stock == payload.stock > 0
        medication == [ id |-> NextMedicationId, name |-> payload.name,
                        stock |-> payload.stock, in_stock |-> in_stock ]
    IN
    /\ Cardinality(medications) < MaxMedications
    /\ IF auth.status # 200
       THEN /\ last' = Respond("create_medication", auth, 0, payload,
                               auth.status, auth.detail, {})
            /\ UNCHANGED medications
       ELSE IF \E m \in medications : ilike(m.name, payload.name)
       THEN /\ last' = Respond("create_medication", auth, 0, payload, 400,
                               "Medication with this name already exists.", {})
            /\ UNCHANGED medications
       ELSE /\ medications' = medications \cup { medication }
            /\ last' = Respond("create_medication", auth, medication.id, payload, 200,
                               "", { medication.id })
    /\ UNCHANGED medOther

\* an update that stores the stock and leaves in_stock as it was
update_medication_write_StockOnly(medication, payload) ==
    [ medication EXCEPT
        !.name = IF payload.name # Unset THEN payload.name ELSE @,
        !.stock = IF payload.stock # UnsetInt THEN payload.stock ELSE @ ]

\* the assignments of update_medication; Unset is a field that is None
update_medication_write(medication, payload) ==
    [ medication EXCEPT
        !.name = IF payload.name # Unset THEN payload.name ELSE @,
        !.stock = IF payload.stock # UnsetInt THEN payload.stock ELSE @,
        !.in_stock = IF payload.stock # UnsetInt THEN payload.stock > 0 ELSE @ ]

\* PUT /medications/{medication_id}.  payload: MedicationUpdateRequest
update_medication(token, medication_id, payload) ==
    LET auth == require_admin({ SUPER_ADMIN, PHARMACIST }, token) IN
    /\ IF auth.status # 200
       THEN /\ last' = Respond("update_medication", auth, medication_id, payload,
                               auth.status, auth.detail, {})
            /\ UNCHANGED medications
       ELSE IF ~MedicationExists(medication_id)
       THEN /\ last' = Respond("update_medication", auth, medication_id, payload, 404,
                               "Medication not found.", {})
            /\ UNCHANGED medications
       ELSE /\ medications' = (medications \ { MedicationById(medication_id) }) \cup
                 { update_medication_write(MedicationById(medication_id), payload) }
            /\ last' = Respond("update_medication", auth, medication_id, payload, 200,
                               "", { medication_id })
    /\ UNCHANGED medOther

(* The inventory holds Aspirin; the super admin 1 and the clinician admin  *)
(* 2 are logged in.                                                        *)

MedicationNames == { "Aspirin", "aspirin", "Ibuprofen" }

Stocks == { 0, 5 }

MedicationIds == 1 .. MaxMedications

MedicationCreateRequests == [ name : MedicationNames \cup { "%" }, stock : Stocks ]

MedicationUpdateRequests ==
    [ name : { Unset, "aspirin" }, stock : Stocks \cup { UnsetInt } ]

SeedMedications == { [ id |-> 1, name |-> "Aspirin", stock |-> 5, in_stock |-> TRUE ] }

InitMeds ==
    /\ clock = 0
    /\ users = SeedUsers
    /\ appointments = {}
    /\ prescriptions = {}
    /\ payments = {}
    /\ video_consultations = {}
    /\ chat_messages = {}
    /\ medical_info = {}
    /\ activity_logs = << >>
    /\ verification_codes = [ p \in Procs |-> {} ]
    /\ medications = SeedMedications
    /\ staff_roles = {}
    /\ profiles = {}
    /\ auth_tokens = {}
    /\ pending = {}
    /\ tokens = SeedTokens({ 1, 2 })
    /\ last = NoRequest

NextMeds ==
    \/ \E token \in Bearer, payload \in MedicationCreateRequests :
          create_medication(token, payload)
    \/ \E token \in Bearer, id \in MedicationIds, payload \in MedicationUpdateRequests :
          update_medication(token, id, payload)

SpecMeds == InitMeds /\ [][NextMeds]_vars

\* C18: every medication's in_stock flag is true exactly when its stock is
\* greater than zero, after any sequence of create_medication and
\* update_medication requests.
C18_InStockIffStockPositive ==
    \A m \in medications : m.in_stock <=> (m.stock > 0)

\* an update brought the stock of a medication to zero
C18_Witness ==
    /\ last.op = "update_medication" /\ last.status = 200
    /\ last.request.stock = 0
    /\ \E m \in medications : m.id = last.target /\ m.stock = 0 /\ ~m.in_stock

NamesUniqueIgnoringCase ==
    \A m1, m2 \in medications : m1.id # m2.id => lower(m1.name) # lower(m2.name)

\* the request would give a medication the name, ignoring case, of another
Offending(r) ==
    /\ r.op \in { "create_medication", "update_medication" }
    /\ r.status \notin { 401, 403, 404 }
    /\ r.request.name # Unset
    /\ \E m \in medications :
          /\ lower(m.name) = lower(r.request.name)
          /\ r.op = "update_medication" => m.id # r.target

\* C19: no two medications have the same name ignoring case, and a
\* create_medication or update_medication request that would make two such
\* rows is answered 400 and leaves the inventory unchanged.
C19_MedicationNamesUnique ==
    /\ []NamesUniqueIgnoringCase
    /\ [][ Offending(last') => (last'.status = 400 /\ medications' = medications) ]_vars

-----------------------------------------------------------------------------
(* Registration under concurrency, on SpecRegister *)

EmailsUnique ==
    \A u1, u2 \in users : u1.id # u2.id => u1.email # u2.email

-----------------------------------------------------------------------------
(* Staff roles: DELETE /staff-roles/{role_id} next to POST /staff.  The    *)
(* handler counts the users of the role and then deletes it; as for the    *)
(* registrations, `pending` holds a request between the two.               *)

\* a staff_roles table whose rows no foreign key protects
DeleteStaffRoleAllowed_NoForeignKey(role_id) == TRUE

\* what the database accepts: users.staff_role_id is a FOREIGN KEY to
\* staff_roles.id, so a role some user refers to cannot be deleted
DeleteStaffRoleAllowed(role_id) == \A u \in users : u.staff_role_id # role_id

\* DELETE /staff-roles/{role_id}, up to db.delete
delete_staff_role(token, role_id) ==
    LET auth == require_admin({ SUPER_ADMIN, CLINICIAN_ADMIN }, token)
        users_with_role == Cardinality({ u \in users : u.staff_role_id = role_id })
    IN
    /\ CanStart
    /\ IF auth.status # 200
       THEN /\ last' = Respond("delete_staff_role", auth, 0, role_id,
                               auth.status, auth.detail, {})
            /\ UNCHANGED pending
       ELSE IF ~StaffRoleExists(role_id)
       THEN /\ last' = Respond("delete_staff_role", auth, 0, role_id, 404,
                               "Staff role not found", {})
            /\ UNCHANGED pending
       ELSE IF users_with_role > 0
       THEN /\ last' = Respond("delete_staff_role", auth, 0, role_id, 400,
                               "Cannot delete role: users are assigned to this role", {})
            /\ UNCHANGED pending
       ELSE /\ pending' = pending \cup
                 { InFlight("delete_staff_role", auth.user.id, Null, Null, role_id, Null) }
            /\ last' = Respond("delete_staff_role", auth, 0, role_id, 0, "", {})
    /\ UNCHANGED << users, profiles, staff_roles, regOther >>

\* db.delete(role); db.commit() for the request p in flight; the handler
\* answers an SQLAlchemyError with 500
db_commit_delete_staff_role(p) ==
    LET role_id == p.staff_role_id
        answer(status, detail) ==
            [ op |-> p.op, caller |-> p.caller, target |-> 0, request |-> role_id,
              status |-> status, detail |-> detail, result |-> {} ]
    IN
    /\ p.op = "delete_staff_role"
    /\ pending' = pending \ { p }
    /\ IF DeleteStaffRoleAllowed(role_id)
       THEN /\ staff_roles' = { r \in staff_roles : r.id # role_id }
            /\ last' = answer(200, "")
       ELSE /\ last' = answer(500, "Failed to delete staff role")
            /\ UNCHANGED staff_roles
    /\ UNCHANGED << users, profiles, regOther >>

(* The clinician admin 2 creates staff and deletes roles; receptionist 7   *)
(* holds the role role_reception.                                          *)

StaffRoleIds == { "role_nurse", "role_janitor", "role_reception" }

StaffMemberRequests ==
    [ email : { "new@x", "n2@x" }, role : { "nurse" },
      specialization : { Null }, license_number : { "L1" } ]

InitStaff ==
    /\ clock = 0
    /\ users = SeedUsers \cup
         { [ User(7, "rc7@x", RECEPTIONIST) EXCEPT !.staff_role_id = "role_reception" ] }
    /\ appointments = {}
    /\ prescriptions = {}
    /\ payments = {}
    /\ video_consultations = {}
    /\ chat_messages = {}
    /\ medical_info = {}
    /\ activity_logs = << >>
    /\ verification_codes = [ p \in Procs |-> {} ]
    /\ medications = {}
    /\ staff_roles = SeedStaffRoles \cup { StaffRole("role_reception", "receptionist", TRUE) }
    /\ profiles = { [ table |-> "doctors", user_id |-> 6 ],
                    [ table |-> "receptionists", user_id |-> 7 ] }
    /\ auth_tokens = {}
    /\ pending = {}
    /\ tokens = SeedTokens({ 2, 4 })
    /\ last = NoRequest

NextStaff ==
    \/ \E token \in Bearer, payload \in StaffMemberRequests :
          create_staff_member(token, payload)
    \/ \E p \in pending : db_commit_user(p)
    \/ \E token \in Bearer, role_id \in StaffRoleIds : delete_staff_role(token, role_id)
    \/ \E p \in pending : db_commit_delete_staff_role(p)

SpecStaff == InitStaff /\ [][NextStaff]_vars

StaffRoleIdsRefer ==
    \A u \in users : u.staff_role_id # Null => StaffRoleExists(u.staff_role_id)

-----------------------------------------------------------------------------
(* The status of an appointment.  The callers are the super admin 1, the   *)
(* patient 4, the doctor 6 and the bearer of a forged token; the body of a *)
(* PATCH may carry a status next to scheduled_at.  The requests name the   *)
(* deployed appointment 1, the first appointment booked since, and an id   *)
(* that no appointment has.                                                *)

StatusAppointmentIds == { 1, Cardinality(SeedAppointments) + 1, MaxAppointments + 1 }

AppointmentPatchBodies ==
    [ scheduled_at : { 10800, UnsetInt }, status : { Unset, COMPLETED } ]

InitStatus ==
    /\ InitDatabase
    /\ prescriptions = {}
    /\ tokens = SeedTokens({ 1, 4, 6 })

NextStatus ==
    \/ \E token \in Bearer, payload \in AppointmentCreateRequests :
          create_appointment(token, payload)
    \/ \E token \in Bearer, id \in StatusAppointmentIds, body \in AppointmentPatchBodies :
          update_appointment(token, id, AppointmentRescheduleRequest(body))
    \/ \E token \in Bearer, id \in StatusAppointmentIds, body \in AppointmentPatchBodies :
          reschedule_appointment(token, id, AppointmentRescheduleRequest(body))
    \/ \E token \in Bearer, id \in StatusAppointmentIds :
          cancel_appointment(token, id, "changed plans")

SpecStatus == InitStatus /\ [][NextStatus]_vars

\* C21: an appointment is created with status scheduled; whatever
\* update_appointment, reschedule_appointment and cancel_appointment calls
\* are made, every appointment's status is scheduled or cancelled; and an
\* appointment that is cancelled stays cancelled.
C21_ScheduledOrCancelledForGood ==
    /\ [](\A a \in appointments : a.status \in { SCHEDULED, CANCELLED })
    /\ [][ /\ \A b \in appointments' :
                (\A a \in appointments : a.id # b.id) => b.status = SCHEDULED
           /\ \A a \in appointments :
                a.status = CANCELLED =>
                   \E b \in appointments' : b.id = a.id /\ b.status = CANCELLED
         ]_vars

\* update_appointment moved a cancelled appointment to another time, and
\* the appointment is still cancelled
C21_Witness ==
    /\ last.op = "update_appointment"
    /\ last.status = 200
    /\ last.request.scheduled_at = 10800
    /\ \E a \in appointments :
          /\ a.id = last.target
          /\ a.status = CANCELLED
          /\ a.cancellation_reason = "changed plans"
          /\ a.scheduled_at = 10800
=============================================================================
